---- MODULE Spec2Model ----
(***************************************************************************)
(* A model of tileserver-gl's renderer pool discipline (serve_rendered.js, *)
(* respondImage), of the retrying PMTiles client (pmtiles_adapter.js) and  *)
(* of the renderer's resource resolver (serve_rendered.js, createRenderer).*)
(***************************************************************************)
EXTENDS Integers, Sequences, FiniteSets, TLC

\* ------------------------------------------------------------------ bounds
\* Number of image requests of one run.
MaxRequests == 3
\* Largest value of options.minRendererPoolSizes / maxRendererPoolSizes tried.
MaxPoolSize == 2
\* Largest options.tileMargin tried.
MaxTileMargin == 1

VARIABLES
    \* ---- serve_rendered: pools and image requests
    options,      \* the configuration serve_rendered.add and respondImage read
    pools,        \* item.map.renderers[scale] / item.map.renderersStatic[scale]
    nextHandle,   \* identity of the next renderer createRenderer constructs
    hasRender,    \* handle -> typeof renderer.render === 'function'
    destroyed,    \* handles the pool's destroy callback was called on
    timedOut,     \* handles removed by the 30 s render timeout
    pc,           \* request -> position within respondImage
    mode,         \* request -> 'tile' | 'static'
    renderer,     \* request -> the handle its acquire callback received
    timer,        \* request -> state of renderTimeout
    res,          \* request -> the responses sent on its res object
    released,     \* request -> number of pool.release calls it made
    removed,      \* request -> number of pool.removeBadObject calls it made
    overlay,      \* request -> whether its overlay argument is an image
    steps,        \* request -> the steps of respondImage taken, in order
    composites,   \* request -> the layers passed to image.composite
    repo,         \* ids of the items of the repository
    closeCalls,   \* pool -> number of pool.close() calls made on it
    \* ---- pmtiles_adapter: the retrying archive client
    tileCall,     \* one call of getPMtilesTile
    infoCall,     \* one call of getPMtilesInfo
    \* ---- serve_rendered: the renderer's resource resolver
    calls,                \* call -> one invocation of the request callback
    externalRequestCache, \* the process-wide cache of http(s) responses
    cachedEmptyResponses, \* cache keys of createEmptyResponse with a buffer
    fetchCount,           \* url -> number of network fetches issued
    cachedBy,             \* url -> the call whose fetch wrote the cache entry
    \* ---- pmtiles_adapter: S3Source
    s3Source,             \* one construction of an S3Source
    getBytesCall,         \* one call of S3Source.getBytes
    \* ---- serve_rendered / render.js: the overlay of a static image
    overlayCall,          \* one static request's paths, markers and overlay
    markerCall,           \* one call of parseMarkerOptions
    \* ---- serve_data: data tiles
    dataCall,             \* one request of the data-tile route
    \* ---- registration and the markers of a static request
    addCall,              \* one call of serve_rendered.add
    dataAddCall,          \* one call of serve_data.add and the data repository
    markersCall           \* one call of extractMarkersFromQuery

poolVars == <<options, pools, nextHandle, hasRender, destroyed, timedOut,
              pc, mode, renderer, timer, res, released, removed>>

composeVars == <<overlay, steps, composites>>

repoVars == <<repo, closeCalls>>

clientVars == <<tileCall, infoCall>>

resolverVars == <<calls, externalRequestCache, cachedEmptyResponses,
                  fetchCount, cachedBy>>

s3Vars == <<s3Source>>

regVars == <<addCall, dataAddCall, markersCall>>

callVars == <<getBytesCall, overlayCall, markerCall, dataCall, regVars>>

vars == <<poolVars, composeVars, repoVars, clientVars, resolverVars, s3Vars,
          callVars>>

\* What the actions of one part leave alone.
nonPoolVars == <<clientVars, resolverVars, repoVars, s3Vars, callVars>>
nonClientVars == <<poolVars, composeVars, repoVars, resolverVars, s3Vars,
                   callVars>>
nonResolverVars == <<poolVars, composeVars, repoVars, clientVars, s3Vars,
                     callVars>>
nonS3Vars == <<poolVars, composeVars, repoVars, clientVars, resolverVars,
               callVars>>
nonCallVars == <<poolVars, composeVars, repoVars, clientVars, resolverVars,
                 s3Vars, regVars>>

Reqs == 1 .. MaxRequests
Modes == {"tile", "static"}
PoolKeys == {"renderers", "renderersStatic"}
NoRenderer == 0

Max2(a, b) == IF a >= b THEN a ELSE b

\* ------------------------------------------------- the pool (advanced-pool)
PoolSize(p) == Cardinality(p.busy) + Len(p.available)

PoolAcquire(p, client) == [p EXCEPT !.queue = Append(@, client)]

\* A released handle is Ready again; a closed pool destroys it instead.
PoolRelease(p, h) ==
    IF h \in p.busy
    THEN IF p.closing
         THEN [p EXCEPT !.busy = @ \ {h}]
         ELSE [p EXCEPT !.busy = @ \ {h}, !.available = Append(@, h)]
    ELSE p

PoolRemoveBadObject(p, h) ==
    IF h \in p.busy THEN [p EXCEPT !.busy = @ \ {h}] ELSE p

\* A waiting client can be served: a Ready handle exists or the pool may grow.
CanDispense(p) ==
    /\ ~p.closing
    /\ p.queue # <<>>
    /\ \/ p.available # <<>>
       \/ PoolSize(p) < p.max

\* close(): the Ready handles are destroyed, no handle is handed out again.
PoolClose(p) == [p EXCEPT !.closing = TRUE, !.available = <<>>]

\* --------------------------------------------------- serve_rendered.add
createPool_IgnoresMax(min, max) ==
    [min |-> min, max |-> max + 1, available |-> <<>>, busy |-> {},
     queue |-> <<>>, closing |-> FALSE]

createPool(min, max) ==
    [min |-> min, max |-> max, available |-> <<>>, busy |-> {}, queue |-> <<>>,
     closing |-> FALSE]

minPoolSize(o) == o.minRendererPoolSize
maxPoolSize(o) == Max2(minPoolSize(o), o.maxRendererPoolSize)

AddPools(o) ==
    [k \in PoolKeys |-> createPool(minPoolSize(o), maxPoolSize(o))]

\* ------------------------------------------------------- respondImage
tileMargin == Max2(options.tileMargin, 0)

PoolOf(m) ==
    IF m = "tile" /\ tileMargin = 0 THEN "renderers" ELSE "renderersStatic"

headersSent_Never(r) == FALSE

\* res.headersSent
headersSent(r) == Len(res[r]) > 0

Response(status, body) == [status |-> status, body |-> body]

\* res.status(s).send(b) behind `if (!res.headersSent)`
SendIfNotSent(r, status, body) ==
    IF headersSent(r) THEN res[r] ELSE Append(res[r], Response(status, body))

SanityCheckPoolCall_Release(valid) == IF valid THEN "none" ELSE "release"

\* The pool call each branch of respondImage makes on the handle it holds.
SanityCheckPoolCall(valid) == IF valid THEN "none" ELSE "removeBadObject"

RenderThrowPoolCall_Leak == "none"

RenderThrowPoolCall == "removeBadObject"

TimeoutPoolCall_Release == "release"

TimeoutPoolCall == "removeBadObject"

LateCompletion_Unchecked(r) == FALSE

\* `if (res.headersSent) return;` at the head of the render callback
LateCompletion(r) == headersSent(r)

RenderCallbackPoolCall_ReleaseOnError(late, err) ==
    IF late THEN "none" ELSE "release"

RenderCallbackPoolCall(late, err) ==
    IF late THEN "none"
    ELSE IF err THEN "removeBadObject"
    ELSE "release"

ApplyPoolCall(p, h, call) ==
    CASE call = "release" -> PoolRelease(p, h)
      [] call = "removeBadObject" -> PoolRemoveBadObject(p, h)
      [] OTHER -> p

\* The destroy callback of createPool runs on a handle removed while busy,
\* and on a handle released to a closed pool.
Destroyed(p, h, call) ==
    IF /\ h \in p.busy
       /\ \/ call = "removeBadObject"
          \/ call = "release" /\ p.closing
    THEN {h} ELSE {}

Count(call, name) == IF call = name THEN 1 ELSE 0

\* The effect of one pool call made by request r on handle h of pool k,
\* starting from pool value p.
PoolCallBy(r, k, p, h, call) ==
    /\ pools' = [pools EXCEPT ![k] = ApplyPoolCall(p, h, call)]
    /\ destroyed' = destroyed \cup Destroyed(p, h, call)
    /\ released' = [released EXCEPT ![r] = @ + Count(call, "release")]
    /\ removed' = [removed EXCEPT ![r] = @ + Count(call, "removeBadObject")]

\* The one item of the repository.
ItemId == "style"

\* item.watermark, item.staticAttributionText as serve_rendered.add set them
item ==
    [watermark |-> options.watermark,
     staticAttributionText |-> options.staticAttributionText]

\* The overlay argument of respondImage: handleTileRequest passes none,
\* handleStaticRequest the image renderOverlay made of the paths and markers
\* of the request, or null when it has none.
OverlayOf(r) == mode[r] = "static" /\ overlay[r]

Composites_AttributionInTile(r) ==
    (IF OverlayOf(r) THEN <<"overlay">> ELSE <<>>)
    \o (IF item.watermark THEN <<"watermark">> ELSE <<>>)
    \o (IF item.staticAttributionText THEN <<"attribution">> ELSE <<>>)

\* The composites array of the render callback.
Composites(r) ==
    (IF OverlayOf(r) THEN <<"overlay">> ELSE <<>>)
    \o (IF item.watermark THEN <<"watermark">> ELSE <<>>)
    \o (IF mode[r] = "static" /\ item.staticAttributionText
        THEN <<"attribution">> ELSE <<>>)

Step(r, new) == [steps EXCEPT ![r] = @ \o new]

SuccessSteps_CompositeFirst(layers) ==
    <<"rendered">>
    \o (IF layers # <<>> THEN <<"composite">> ELSE <<>>)
    \o <<"release", "toBuffer">>

\* The render callback after a successful render: pool.release, then
\* image.composite when there are layers, then image.toBuffer.
SuccessSteps(layers) ==
    <<"rendered", "release">>
    \o (IF layers # <<>> THEN <<"composite">> ELSE <<>>)
    \o <<"toBuffer">>

\* The request handler from the lookup of the item to pool.acquire (the
\* request passed validation).
RespondImage(r, m) ==
    /\ pc[r] = "idle"
    /\ \A q \in Reqs : q < r => pc[q] # "idle"
    /\ ItemId \in repo
    /\ pc' = [pc EXCEPT ![r] = "acquiring"]
    /\ mode' = [mode EXCEPT ![r] = m]
    /\ pools' = [pools EXCEPT ![PoolOf(m)] = PoolAcquire(@, r)]
    /\ UNCHANGED <<nonPoolVars, options, nextHandle, hasRender, destroyed, timedOut,
                   renderer, timer, res, released, removed, composeVars>>

\* The acquire callback of respondImage, called by the pool with (err, h);
\* p is the pool after the checkout, valid tells whether h has a render
\* method, throws whether renderer.render throws synchronously.
AcquireCallback(r, k, p, err, h, valid, throws) ==
    IF err
    THEN /\ res' = [res EXCEPT ![r] = SendIfNotSent(r, 503, "Renderer pool error")]
         /\ pc' = [pc EXCEPT ![r] = "done"]
         /\ pools' = [pools EXCEPT ![k] = p]
         /\ UNCHANGED <<renderer, timer, timedOut, destroyed, released, removed,
                        steps>>
    ELSE IF h = NoRenderer
    THEN /\ res' = [res EXCEPT ![r] = SendIfNotSent(r, 503, "Renderer unavailable")]
         /\ pc' = [pc EXCEPT ![r] = "done"]
         /\ pools' = [pools EXCEPT ![k] = p]
         /\ UNCHANGED <<renderer, timer, timedOut, destroyed, released, removed,
                        steps>>
    ELSE IF SanityCheckPoolCall(valid) # "none"
    THEN /\ PoolCallBy(r, k, p, h, SanityCheckPoolCall(valid))
         /\ res' = [res EXCEPT ![r] = SendIfNotSent(r, 503, "Renderer invalid")]
         /\ pc' = [pc EXCEPT ![r] = "done"]
         /\ renderer' = [renderer EXCEPT ![r] = h]
         /\ steps' = Step(r, <<"acquire">>)
         /\ UNCHANGED <<timer, timedOut>>
    ELSE IF throws
    THEN /\ PoolCallBy(r, k, p, h, RenderThrowPoolCall)
         /\ res' = [res EXCEPT ![r] = SendIfNotSent(r, 500, "Render failed")]
         /\ pc' = [pc EXCEPT ![r] = "done"]
         /\ renderer' = [renderer EXCEPT ![r] = h]
         /\ timer' = [timer EXCEPT ![r] = "cleared"]
         /\ steps' = Step(r, <<"acquire", "configure", "render">>)
         /\ UNCHANGED timedOut
    ELSE /\ pools' = [pools EXCEPT ![k] = p]
         /\ pc' = [pc EXCEPT ![r] = "rendering"]
         /\ renderer' = [renderer EXCEPT ![r] = h]
         /\ timer' = [timer EXCEPT ![r] = "armed"]
         /\ steps' = Step(r, <<"acquire", "configure", "render">>)
         /\ UNCHANGED <<res, timedOut, destroyed, released, removed>>

\* createRenderer: constructs a renderer and calls createCallback(null, it).
createRenderer(valid) ==
    /\ nextHandle' = nextHandle + 1
    /\ hasRender' = hasRender @@ (nextHandle :> valid)

\* The pool serves its first waiting client with a Ready handle.
DispenseReady(k) ==
    /\ ~pools[k].closing
    /\ pools[k].queue # <<>>
    /\ pools[k].available # <<>>
    /\ LET p == pools[k]
           h == Head(p.available)
           p1 == [p EXCEPT !.queue = Tail(@), !.available = Tail(@),
                           !.busy = @ \cup {h}]
       IN \E throws \in BOOLEAN :
            AcquireCallback(Head(p.queue), k, p1, FALSE, h, hasRender[h], throws)
    /\ UNCHANGED <<nonPoolVars, options, mode, nextHandle, hasRender, overlay,
                   composites>>

\* The pool serves its first waiting client with a newly created handle.
DispenseNew(k) ==
    /\ ~pools[k].closing
    /\ pools[k].queue # <<>>
    /\ pools[k].available = <<>>
    /\ PoolSize(pools[k]) < pools[k].max
    /\ LET p == pools[k]
           h == nextHandle
           p1 == [p EXCEPT !.queue = Tail(@), !.busy = @ \cup {h}]
       IN \E valid \in BOOLEAN, throws \in BOOLEAN :
            /\ createRenderer(valid)
            /\ AcquireCallback(Head(p.queue), k, p1, FALSE, h, valid, throws)
    /\ UNCHANGED <<nonPoolVars, options, mode, overlay, composites>>

\* The 30 s renderTimeout callback.
RenderTimeout(r) ==
    /\ timer[r] = "armed"
    /\ PoolCallBy(r, PoolOf(mode[r]), pools[PoolOf(mode[r])], renderer[r],
                  TimeoutPoolCall)
    /\ timedOut' = timedOut \cup {renderer[r]}
    /\ res' = [res EXCEPT ![r] = SendIfNotSent(r, 503, "Renderer timeout")]
    /\ timer' = [timer EXCEPT ![r] = "fired"]
    /\ pc' = [pc EXCEPT ![r] = "timedout"]
    /\ UNCHANGED <<nonPoolVars, options, nextHandle, hasRender, mode, renderer,
                   composeVars>>

\* The callback of renderer.render(params, (err, data) => ...), up to the
\* call of image.toBuffer.
RenderCallback(r, err) ==
    /\ pc[r] \in {"rendering", "timedout"}
    /\ LET call == RenderCallbackPoolCall(LateCompletion(r), err)
       IN /\ PoolCallBy(r, PoolOf(mode[r]), pools[PoolOf(mode[r])],
                        renderer[r], call)
          /\ IF LateCompletion(r)
             THEN /\ pc' = [pc EXCEPT ![r] = "done"]
                  /\ UNCHANGED <<res, steps, composites>>
             ELSE IF err
             THEN /\ res' = [res EXCEPT ![r] =
                                SendIfNotSent(r, 500, "Render error")]
                  /\ pc' = [pc EXCEPT ![r] = "done"]
                  /\ steps' = Step(r, <<"rendered">>)
                  /\ UNCHANGED composites
             ELSE /\ pc' = [pc EXCEPT ![r] = "encoding"]
                  /\ composites' = [composites EXCEPT ![r] = Composites(r)]
                  /\ steps' = Step(r, SuccessSteps(Composites(r)))
                  /\ UNCHANGED res
    /\ timer' = [timer EXCEPT ![r] = IF @ = "armed" THEN "cleared" ELSE @]
    /\ UNCHANGED <<nonPoolVars, options, nextHandle, hasRender, timedOut, mode,
                   renderer, overlay>>

\* The callback of image.toBuffer((err, buffer, info) => ...).
ToBufferCallback(r, err) ==
    /\ pc[r] = "encoding"
    /\ res' = [res EXCEPT ![r] =
                  IF err THEN SendIfNotSent(r, 500, "Image processing failed")
                         ELSE SendIfNotSent(r, 200, "image")]
    /\ pc' = [pc EXCEPT ![r] = "done"]
    /\ steps' = Step(r, <<"encoded">>)
    /\ UNCHANGED <<nonPoolVars, options, pools, nextHandle, hasRender, destroyed, timedOut,
                   mode, renderer, timer, released, removed, overlay, composites>>

\* ---- S3Source: names and values
\* Longest bucket, endpoint host and key tried, in characters.
MaxNameLen == 3

\* The characters of names: a letter, the dot and the slash.
Chars == {"a", ".", "/"}

StringsUpTo(n) == UNION {[1 .. k -> Chars] : k \in 1 .. n}

Contains(str, ch) == \E i \in 1 .. Len(str) : str[i] = ch

\* Bucket names and hosts begin and end with a letter and have no slash and
\* no two dots in a row; a host has a dot.
ValidBucket(str) ==
    /\ str[1] = "a" /\ str[Len(str)] = "a"
    /\ ~Contains(str, "/")
    /\ \A i \in 1 .. Len(str) - 1 : ~(str[i] = "." /\ str[i + 1] = ".")

Buckets == {str \in StringsUpTo(MaxNameLen) : ValidBucket(str)}
Endpoints == {str \in Buckets : Contains(str, ".")}
Keys == StringsUpTo(MaxNameLen)

\* JavaScript values: strings, booleans, undefined and null.
Str(v) == [t |-> "string", v |-> v]
Bool(b) == [t |-> "boolean", v |-> IF b THEN "true" ELSE "false"]
Undef == [t |-> "undefined", v |-> ""]
NullRef == [t |-> "object", v |-> ""]

\* a || b
Or(a, b) == IF a \in {Undef, NullRef, Str(""), Bool(FALSE)} THEN b ELSE a

\* a ?? b
Nullish(a, b) == IF a \in {Undef, NullRef} THEN b ELSE a

\* No S3Source was constructed.
NoS3Source ==
    [pc |-> "none", scheme |-> <<>>, body |-> <<>>, built |-> <<>>,
     input |-> <<>>, parsed |-> <<>>, source |-> <<>>, error |-> <<>>]

S3AtRest == s3Source = NoS3Source

\* ---- single calls: nothing has been called yet
NoGetBytesCall ==
    [pc |-> "none", input |-> <<>>, source |-> <<>>, command |-> <<>>,
     outcome |-> <<>>, result |-> <<>>]

NoOverlayCall ==
    [pc |-> "none", query |-> <<>>, paths |-> <<>>, markers |-> <<>>,
     throws |-> 0, canvas |-> <<>>, view |-> <<>>, result |-> "pending"]

NoMarkerCall == [pc |-> "none", optionsList |-> <<>>, marker |-> <<>>]

NoDataCall ==
    [pc |-> "none", req |-> <<>>, item |-> <<>>, fetchTile |-> "pending",
     res |-> <<>>]

\* serve_rendered.add has returned for the one item of the repository.
AddDone == [pc |-> "done", error |-> <<>>]

NoDataAddCall ==
    [pc |-> "none", id |-> "", params |-> <<>>, repo |-> {}, before |-> {},
     error |-> <<>>]

NoMarkersCall == [pc |-> "none", input |-> <<>>, markers |-> <<>>]

RegAtRest ==
    /\ addCall = AddDone
    /\ dataAddCall = NoDataAddCall
    /\ markersCall = NoMarkersCall

CallsAtRest ==
    /\ getBytesCall = NoGetBytesCall
    /\ overlayCall = NoOverlayCall
    /\ markerCall = NoMarkerCall
    /\ dataCall = NoDataCall
    /\ RegAtRest

\* ---- the resource resolver of a renderer: sources, requests, responses
\* Number of resolver calls of one run.
MaxCalls == 2
\* Capacity of externalRequestCache (process.env.CACHE_SIZE) tried.
CacheSize == 1

Calls == 1 .. MaxCalls
NoCallId == 0

\* styleJSON.sources and map.sourceTypes after serve_rendered.add: the
\* archive sources of the style, with the format of their metadata.
Sources == {"a", "b", "c", "d", "e"}

sourceInfo(id) ==
    CASE id = "a" -> [sourceType |-> "pmtiles", sparse |-> TRUE,
                      format |-> "pbf", color |-> ""]
      [] id = "b" -> [sourceType |-> "pmtiles", sparse |-> FALSE,
                      format |-> "png", color |-> "red"]
      [] id = "c" -> [sourceType |-> "mbtiles", sparse |-> FALSE,
                      format |-> "jpg", color |-> ""]
      [] id = "d" -> [sourceType |-> "pmtiles", sparse |-> FALSE,
                      format |-> "Unknown", color |-> ""]
      [] OTHER    -> [sourceType |-> "mbtiles", sparse |-> TRUE,
                      format |-> "png", color |-> "notacolor"]

Urls == {"http://h/t.png", "https://h/t.pbf"}

\* url.parse(req.url).pathname -> path.extname(..).toLowerCase()
extname(u) == IF u = "http://h/t.png" THEN ".png" ELSE ".pbf"

\* extensionToFormat[extension] || ''
extensionToFormat(ext) ==
    CASE ext = ".jpg" -> "jpeg"
      [] ext = ".jpeg" -> "jpeg"
      [] ext = ".png" -> "png"
      [] ext = ".webp" -> "webp"
      [] OTHER -> ""

ArchiveRequests ==
    {[protocol |-> sourceInfo(id).sourceType, target |-> id] : id \in Sources}

\* Paths under options.paths.files, and what fs finds there.
Files == {"missing.geojson", "dir", "empty.geojson", "ok.geojson"}

FileRequests == {[protocol |-> "file", target |-> f] : f \in Files}

HttpRequests ==
    {[protocol |-> IF u = "http://h/t.png" THEN "http" ELSE "https",
      target |-> u] : u \in Urls}

\* A response handed to the renderer: { data, modified?, expires?, etag? }
Resp(data, modified, expires, etag) ==
    [data |-> data, modified |-> modified, expires |-> expires, etag |-> etag]

NoResp == Resp(<<"null">>, <<>>, <<>>, "")

\* new Date(header)
Date(header) == <<"Date", header>>

\* callback(), callback(null, response), callback(err, ...)
CbAbsent == [type |-> "absent", value |-> NoResp]
CbResponse(v) == [type |-> "response", value |-> v]
CbError == [type |-> "error", value |-> NoResp]

IdleCall ==
    [pc |-> "idle", req |-> [protocol |-> "", target |-> ""],
     callbacks |-> <<>>, fetched |-> FALSE, prior |-> NoCallId,
     fetchTile |-> "pending", emptyKey |-> <<>>, response |-> NoResp,
     caught |-> FALSE, encodeErr |-> FALSE, read |-> FALSE]

ResolverAtRest ==
    /\ calls = [c \in Calls |-> IdleCall]
    /\ externalRequestCache = <<>>
    /\ cachedEmptyResponses = {}
    /\ fetchCount = [u \in Urls |-> 0]
    /\ cachedBy = [u \in Urls |-> NoCallId]

\* No call of the archive client is in progress.
NoCall ==
    [pc |-> "none", maxRetries |-> 0, attempt |-> 0, queries |-> 0,
     outcomes |-> <<>>, delays |-> <<>>, result |-> "pending",
     message |-> <<>>, inputFile |-> "", header |-> <<>>, metadata |-> <<>>]

ClientAtRest == tileCall = NoCall /\ infoCall = NoCall

\* The configurations tried: no tile margin with min <= max pool sizes, and
\* the largest tile margin with min > max pool sizes.
PoolOptions ==
    { o \in [tileMargin : {0, MaxTileMargin},
             minRendererPoolSize : 1 .. MaxPoolSize,
             maxRendererPoolSize : 1 .. MaxPoolSize,
             watermark : BOOLEAN,
             staticAttributionText : BOOLEAN] :
        \/ /\ o.tileMargin = 0
           /\ o.minRendererPoolSize = 1
           /\ o.maxRendererPoolSize = MaxPoolSize
           /\ o.watermark /\ o.staticAttributionText
        \/ /\ o.tileMargin = MaxTileMargin
           /\ o.minRendererPoolSize = MaxPoolSize
           /\ o.maxRendererPoolSize = 1
           /\ ~o.watermark /\ ~o.staticAttributionText }

\* Requests without paths and markers.
NoOverlays == [r \in Reqs |-> FALSE]

PoolStart ==
    /\ pools = AddPools(options)
    /\ nextHandle = 1
    /\ hasRender = <<>>
    /\ destroyed = {}
    /\ timedOut = {}
    /\ pc = [r \in Reqs |-> "idle"]
    /\ mode = [r \in Reqs |-> "tile"]
    /\ renderer = [r \in Reqs |-> NoRenderer]
    /\ timer = [r \in Reqs |-> "unset"]
    /\ res = [r \in Reqs |-> <<>>]
    /\ released = [r \in Reqs |-> 0]
    /\ removed = [r \in Reqs |-> 0]
    /\ steps = [r \in Reqs |-> <<>>]
    /\ composites = [r \in Reqs |-> <<>>]
    /\ repo = {ItemId}
    /\ closeCalls = [k \in PoolKeys |-> 0]

\* serve_rendered with the default-like configuration and no request.
PoolAtRest ==
    /\ options = [tileMargin |-> 0, minRendererPoolSize |-> 1,
                  maxRendererPoolSize |-> MaxPoolSize,
                  watermark |-> TRUE, staticAttributionText |-> TRUE]
    /\ overlay = NoOverlays
    /\ PoolStart

InitPool ==
    /\ options \in PoolOptions
    /\ overlay = NoOverlays
    /\ PoolStart
    /\ ClientAtRest
    /\ ResolverAtRest
    /\ S3AtRest
    /\ CallsAtRest

NextPool ==
    \/ \E r \in Reqs, m \in Modes : RespondImage(r, m)
    \/ \E k \in PoolKeys : DispenseReady(k)
    \/ \E k \in PoolKeys : DispenseNew(k)
    \/ \E r \in Reqs : RenderTimeout(r)
    \/ \E r \in Reqs, err \in BOOLEAN : RenderCallback(r, err)
    \/ \E r \in Reqs, err \in BOOLEAN : ToBufferCallback(r, err)

SpecPool == InitPool /\ [][NextPool]_vars

\* ---- respondImage with overlays, watermark and attribution
\* Every second request has paths or markers.
SomeOverlays == [r \in Reqs |-> r % 2 = 1]

\* The default pool sizes with each configuration of watermark and
\* attribution but the empty one.
ComposeOptions ==
    { o \in [tileMargin : {0},
             minRendererPoolSize : {1},
             maxRendererPoolSize : {MaxPoolSize},
             watermark : BOOLEAN,
             staticAttributionText : BOOLEAN] :
        o.watermark \/ o.staticAttributionText }

InitCompose ==
    /\ options \in ComposeOptions
    /\ overlay = SomeOverlays
    /\ PoolStart
    /\ ClientAtRest
    /\ ResolverAtRest
    /\ S3AtRest
    /\ CallsAtRest

NextCompose ==
    \/ \E r \in Reqs, m \in Modes : RespondImage(r, m)
    \/ \E k \in PoolKeys : DispenseReady(k)
    \/ \E k \in PoolKeys : DispenseNew(k)
    \/ \E r \in Reqs : RenderTimeout(r)
    \/ \E r \in Reqs, err \in BOOLEAN : RenderCallback(r, err)
    \/ \E r \in Reqs, err \in BOOLEAN : ToBufferCallback(r, err)

SpecCompose == InitCompose /\ [][NextCompose]_vars

\* ----------------------------------------- serve_rendered.remove / clear
ClosedByRemove_TileOnly == {"renderers"}

\* item.map.renderers.forEach(close); item.map.renderersStatic.forEach(close)
ClosedByRemove == PoolKeys

Handles(seq) == {seq[i] : i \in 1 .. Len(seq)}

\* pool.close() on the pools of the item.
CloseItem ==
    /\ pools' = [k \in PoolKeys |->
                    IF k \in ClosedByRemove THEN PoolClose(pools[k])
                                            ELSE pools[k]]
    /\ destroyed' = destroyed \cup
            UNION {Handles(pools[k].available) : k \in ClosedByRemove}
    /\ closeCalls' = [k \in PoolKeys |->
                    closeCalls[k] + (IF k \in ClosedByRemove THEN 1 ELSE 0)]

Remove(id) ==
    /\ IF id \in repo
       THEN CloseItem
       ELSE UNCHANGED <<pools, destroyed, closeCalls>>
    /\ repo' = repo \ {id}
    /\ UNCHANGED <<clientVars, resolverVars, s3Vars, callVars, composeVars, options,
                   nextHandle,
                   hasRender, timedOut, pc, mode, renderer, timer, res,
                   released, removed>>

Clear ==
    /\ IF ItemId \in repo
       THEN CloseItem
       ELSE UNCHANGED <<pools, destroyed, closeCalls>>
    /\ repo' = {}
    /\ UNCHANGED <<clientVars, resolverVars, s3Vars, callVars, composeVars, options,
                   nextHandle,
                   hasRender, timedOut, pc, mode, renderer, timer, res,
                   released, removed>>

InitRepo ==
    /\ PoolAtRest
    /\ ClientAtRest
    /\ ResolverAtRest
    /\ S3AtRest
    /\ CallsAtRest

NextRepo ==
    \/ \E r \in Reqs, m \in Modes : RespondImage(r, m)
    \/ \E k \in PoolKeys : DispenseReady(k)
    \/ \E k \in PoolKeys : DispenseNew(k)
    \/ \E r \in Reqs : RenderTimeout(r)
    \/ \E r \in Reqs, err \in BOOLEAN : RenderCallback(r, err)
    \/ \E r \in Reqs, err \in BOOLEAN : ToBufferCallback(r, err)
    \/ \E id \in {ItemId, "other"} : Remove(id)
    \/ Clear

SpecRepo == InitRepo /\ [][NextRepo]_vars

\* ------------------------------------------- pmtiles_adapter.js: retries
\* Largest explicit maxRetries argument tried.
MaxRetriesArg == 3
\* The maxRetries argument left out by the caller.
Undefined == -1
\* getPMtilesTile(pmtiles, z, x, y, maxRetries = 3)
DefaultTileRetries == 3
\* getPMtilesInfo(pmtiles, inputFile, maxRetries = 3)
DefaultInfoRetries == 3

RetryArgs == {Undefined} \cup (0 .. MaxRetriesArg)

\* Error messages as sequences of the parts the code looks for; <<>> is an
\* error without a message.
ErrorMessages ==
    { <<"429">>,
      <<"Bad response code:", "429">>,
      <<"Bad response code:", "404">>,
      <<"ECONNRESET">>,
      <<>> }

\* String.prototype.includes
includes(msg, part) == \E i \in 1 .. Len(msg) : msg[i] = part

RECURSIVE Pow2(_)
Pow2(n) == IF n = 0 THEN 1 ELSE 2 * Pow2(n - 1)

\* const delay = Math.pow(2, attempt) * 1000
Delay(attempt) == Pow2(attempt) * 1000

\* What one attempt of getPMtilesTile meets: getZxy gives no tile, or a tile
\* followed by getHeader, or either of them throws.
TileOutcomes ==
    {[kind |-> "absent", message |-> <<>>], [kind |-> "tile", message |-> <<>>]}
    \cup {[kind |-> "zxyError", message |-> m] : m \in ErrorMessages}
    \cup {[kind |-> "headerError", message |-> m] : m \in ErrorMessages}

IsError(o) == o.kind \in {"zxyError", "headerError", "metadataError"}

\* const errorMessage = error.message || 'Unknown error'
TileErrorMessage(m) == IF m = <<>> THEN <<"Unknown error">> ELSE m

\* The catch block of getPMtilesTile.
TileCatch_Rethrow(m, attempt, maxRetries) ==
    IF includes(TileErrorMessage(m), "429") /\ attempt < maxRetries - 1
    THEN "wait"
    ELSE IF includes(TileErrorMessage(m), "Bad response code:")
    THEN "returnNull"
    ELSE "throw"

TileCatch(m, attempt, maxRetries) ==
    IF includes(TileErrorMessage(m), "429") /\ attempt < maxRetries - 1
    THEN "wait"
    ELSE IF includes(TileErrorMessage(m), "Bad response code:")
    THEN "returnNull"
    ELSE "nextAttempt"

\* What the loop body of getPMtilesTile does with one attempt's outcome.
TileStep(o, attempt, maxRetries) ==
    IF o.kind = "absent" THEN "returnNull"
    ELSE IF o.kind = "tile" THEN "returnTile"
    ELSE TileCatch(o.message, attempt, maxRetries)

\* The for statement: the next iteration, or the return null after the loop.
LoopHead(c) ==
    IF c.attempt < c.maxRetries
    THEN [c EXCEPT !.pc = "try"]
    ELSE [c EXCEPT !.pc = "done", !.result = "null"]

GetPMtilesTile(arg) ==
    /\ tileCall.pc = "none"
    /\ tileCall' = LoopHead([NoCall EXCEPT
            !.maxRetries = IF arg = Undefined THEN DefaultTileRetries ELSE arg])
    /\ UNCHANGED <<nonClientVars, infoCall>>

\* One iteration of the loop of getPMtilesTile, up to its return, its wait
\* or the next iteration.
TileAttempt(o) ==
    /\ tileCall.pc = "try"
    /\ LET c == [tileCall EXCEPT !.queries = @ + 1,
                                 !.outcomes = Append(@, o)]
           step == TileStep(o, c.attempt, c.maxRetries)
       IN tileCall' =
            CASE step = "returnNull" -> [c EXCEPT !.pc = "done", !.result = "null"]
              [] step = "returnTile" -> [c EXCEPT !.pc = "done", !.result = "tile"]
              [] step = "throw" ->
                    [c EXCEPT !.pc = "done", !.result = "threw",
                              !.message = o.message]
              [] step = "wait" ->
                    [c EXCEPT !.pc = "wait",
                              !.delays = Append(@, Delay(c.attempt))]
              [] OTHER -> LoopHead([c EXCEPT !.attempt = @ + 1])
    /\ UNCHANGED <<nonClientVars, infoCall>>

\* The setTimeout(resolve, delay) of the retry fires; `continue`.
TileWakeup ==
    /\ tileCall.pc = "wait"
    /\ tileCall' = LoopHead([tileCall EXCEPT !.attempt = @ + 1])
    /\ UNCHANGED <<nonClientVars, infoCall>>

InitTile ==
    /\ ClientAtRest
    /\ PoolAtRest
    /\ ResolverAtRest
    /\ S3AtRest
    /\ CallsAtRest

NextTile ==
    \/ \E arg \in RetryArgs : GetPMtilesTile(arg)
    \/ \E o \in TileOutcomes : TileAttempt(o)
    \/ TileWakeup

SpecTile == InitTile /\ [][NextTile]_vars

\* Locations of the archive (the inputFile argument of getPMtilesInfo).
InputFiles == {"a.pmtiles", "s3://bucket/b.pmtiles"}

\* ---- the header of the archive
\* 180 degrees, in units of 1e-7 degree.
WorldLonE7 == 1800000000
\* 85.05112877980659 degrees, in units of 1e-7 degree.
WorldLatE7 == 850511288
\* Largest zoom of a header tried.
MaxZoom == 3

\* Values of header fields: numbers (coordinates in 1e-7 degree), and what a
\* missing or malformed field gives.
Number(n) == [t |-> "number", v |-> n]
Missing == [t |-> "undefined", v |-> 0]
Null == [t |-> "object", v |-> 0]
String == [t |-> "string", v |-> 0]

\* typeof x === 'number'
IsNumber(x) == x.t = "number"

\* if (x), for the values above (a non-empty string is truthy)
Truthy(x) == (x.t = "number" /\ x.v # 0) \/ x.t = "string"

BoundValues == {Number(0), Number(10000000), Missing}

\* The headers tried: every combination of bound fields with a center zoom,
\* and every combination of center zoom and max zoom with bounds.
Headers ==
    { [minLon |-> a, minLat |-> b, maxLon |-> c, maxLat |-> d,
       centerLon |-> Number(5000000), centerLat |-> Number(-5000000),
       centerZoom |-> Number(1), maxZoom |-> MaxZoom] :
         a \in BoundValues, b \in BoundValues \cup {Null},
         c \in BoundValues, d \in BoundValues \cup {String} }
    \cup
    { [minLon |-> Number(-10000000), minLat |-> Number(0),
       maxLon |-> Number(10000000), maxLat |-> Number(0),
       centerLon |-> Number(0), centerLat |-> Number(0),
       centerZoom |-> z, maxZoom |-> m] :
         z \in {Number(n) : n \in 0 .. MaxZoom} \cup {Missing, Null},
         m \in 0 .. MaxZoom }

hasBounds_ZeroTrusted(header) ==
    /\ IsNumber(header.minLon)
    /\ IsNumber(header.minLat)
    /\ IsNumber(header.maxLon)
    /\ IsNumber(header.maxLat)

hasBounds(header) ==
    /\ IsNumber(header.minLon)
    /\ IsNumber(header.minLat)
    /\ IsNumber(header.maxLon)
    /\ IsNumber(header.maxLat)
    /\ ~(/\ header.minLon.v = 0
         /\ header.minLat.v = 0
         /\ header.maxLon.v = 0
         /\ header.maxLat.v = 0)

\* [-180, -85.05112877980659, 180, 85.0511287798066]
FullExtent ==
    <<Number(-WorldLonE7), Number(-WorldLatE7),
      Number(WorldLonE7), Number(WorldLatE7)>>

\* metadata['bounds']
BoundsOf(header) ==
    IF hasBounds(header)
    THEN <<header.minLon, header.minLat, header.maxLon, header.maxLat>>
    ELSE FullExtent

\* A zoom in units of half a zoom level, so that maxzoom / 2 is exact.
Halves(zoom) == 2 * zoom

CenterOf_ZeroExplicit(header) ==
    IF IsNumber(header.centerZoom)
    THEN <<header.centerLon, header.centerLat,
           Number(Halves(header.centerZoom.v))>>
    ELSE <<header.centerLon, header.centerLat, Number(header.maxZoom)>>

\* metadata['center']: [lon, lat, zoom in half levels]
CenterOf(header) ==
    IF Truthy(header.centerZoom)
    THEN <<header.centerLon, header.centerLat,
           Number(Halves(header.centerZoom.v))>>
    ELSE <<header.centerLon, header.centerLat, Number(header.maxZoom)>>

\* The metadata getPMtilesInfo returns for a header.
MetadataOf(header) ==
    [minzoom |-> 0, maxzoom |-> header.maxZoom,
     bounds |-> BoundsOf(header), center |-> CenterOf(header)]

\* What one attempt of getPMtilesInfo meets: getHeader throws, or getMetadata
\* throws after getHeader, or both answer.
InfoOutcomes ==
    {[kind |-> "metadata", message |-> <<>>]}
    \cup {[kind |-> "headerError", message |-> m] : m \in ErrorMessages}
    \cup {[kind |-> "metadataError", message |-> m] : m \in ErrorMessages}

\* `${error.message}`: an error without a message prints as undefined
TemplateOf(m) == IF m = <<>> THEN <<"undefined">> ELSE m

\* `${error.message} for file: ${inputFile}`
InfoErrorMessage(m, inputFile) == TemplateOf(m) \o <<" for file: ", inputFile>>

\* The catch block of getPMtilesInfo.
InfoCatch_RetryAll(m, attempt, maxRetries) ==
    IF attempt < maxRetries - 1
    THEN "wait"
    ELSE "throw"

InfoCatch(m, attempt, maxRetries) ==
    IF m # <<>> /\ includes(m, "429") /\ attempt < maxRetries - 1
    THEN "wait"
    ELSE IF ~includes(m, "429") \/ attempt = maxRetries - 1
    THEN "throw"
    ELSE "nextAttempt"

InfoStep(o, attempt, maxRetries) ==
    IF o.kind = "metadata" THEN "returnMetadata"
    ELSE InfoCatch(o.message, attempt, maxRetries)

\* The for statement of getPMtilesInfo: the next iteration, or the throw
\* after the loop.
InfoLoopHead(c, lastError) ==
    IF c.attempt < c.maxRetries
    THEN [c EXCEPT !.pc = "try"]
    ELSE [c EXCEPT !.pc = "done", !.result = "threw",
                   !.message = <<"Failed to get PMTiles info after ",
                                 c.maxRetries, " attempts: ">>
                               \o (IF lastError = <<>> THEN <<"Unknown error">>
                                   ELSE lastError)]

GetPMtilesInfo(inputFile, arg) ==
    /\ infoCall.pc = "none"
    /\ infoCall' = InfoLoopHead(
            [NoCall EXCEPT
                !.maxRetries = IF arg = Undefined THEN DefaultInfoRetries ELSE arg,
                !.inputFile = inputFile], <<>>)
    /\ UNCHANGED <<nonClientVars, tileCall>>

\* One iteration of the loop of getPMtilesInfo, up to its return, its throw,
\* its wait or the next iteration.
InfoAttempt(o, header) ==
    /\ infoCall.pc = "try"
    /\ LET c == [infoCall EXCEPT !.queries = @ + 1,
                                 !.outcomes = Append(@, o)]
           step == InfoStep(o, c.attempt, c.maxRetries)
       IN infoCall' =
            CASE step = "returnMetadata" ->
                    [c EXCEPT !.pc = "done", !.result = "metadata",
                              !.header = <<header>>,
                              !.metadata = <<MetadataOf(header)>>]
              [] step = "throw" ->
                    [c EXCEPT !.pc = "done", !.result = "threw",
                              !.message = InfoErrorMessage(o.message, c.inputFile)]
              [] step = "wait" ->
                    [c EXCEPT !.pc = "wait",
                              !.delays = Append(@, Delay(c.attempt))]
              [] OTHER -> InfoLoopHead([c EXCEPT !.attempt = @ + 1], o.message)
    /\ UNCHANGED <<nonClientVars, tileCall>>

\* The setTimeout(resolve, delay) of the retry fires; `continue`.
InfoWakeup ==
    /\ infoCall.pc = "wait"
    /\ infoCall' = InfoLoopHead([infoCall EXCEPT !.attempt = @ + 1],
                                infoCall.outcomes[Len(infoCall.outcomes)].message)
    /\ UNCHANGED <<nonClientVars, tileCall>>

InitInfo ==
    /\ ClientAtRest
    /\ PoolAtRest
    /\ ResolverAtRest
    /\ S3AtRest
    /\ CallsAtRest

NextInfo ==
    \/ \E f \in InputFiles, arg \in RetryArgs : GetPMtilesInfo(f, arg)
    \/ \E o \in InfoOutcomes, header \in Headers : InfoAttempt(o, header)
    \/ InfoWakeup

SpecInfo == InitInfo /\ [][NextInfo]_vars

\* ------------------------------------- createRenderer: request callback
\* ---- LRUCache (utils.js)
LRUHas(cache, key) == \E i \in 1 .. Len(cache) : cache[i].key = key

LRUValue(cache, key) ==
    (CHOOSE e \in {cache[i] : i \in 1 .. Len(cache)} : e.key = key).value

LRUWithout(cache, key) == SelectSeq(cache, LAMBDA e : e.key # key)

LRUGet(cache, key) ==
    IF LRUHas(cache, key)
    THEN [found |-> TRUE, value |-> LRUValue(cache, key)]
    ELSE [found |-> FALSE, value |-> NoResp]

\* get: a hit makes the entry the most recently used one
LRUTouch(cache, key) ==
    IF LRUHas(cache, key)
    THEN Append(LRUWithout(cache, key), [key |-> key, value |-> LRUValue(cache, key)])
    ELSE cache

\* set: a new key evicts the least recently used entry of a full cache
LRUSet(cache, key, value) ==
    LET rest == LRUWithout(cache, key)
        kept == IF Len(rest) >= CacheSize THEN Tail(rest) ELSE rest
    IN Append(kept, [key |-> key, value |-> value])

\* ---- createEmptyResponse
\* new Color(color) parses the color string
ColorParses(color) == color # "notacolor"

\* sharp(..).toFormat(format) accepts the format
SharpFormats == {"jpeg", "png", "webp", "avif"}

\* if (format === 'jpg') format = 'jpeg'
NormalFormat(format) == IF format = "jpg" THEN "jpeg" ELSE format

\* if (!color) color = 'rgba(255,255,255,0)'
NormalColor(color) == IF color = "" THEN "rgba(255,255,255,0)" ELSE color

CacheKey(format, color) == <<NormalFormat(format), NormalColor(color)>>

EmptyBuffer == Resp(<<>>, <<>>, <<>>, "")

Placeholder(key) == Resp(<<"image">> \o key, <<>>, <<>>, "")

\* What createEmptyResponse(format, color, callback) does before it returns:
\* the callback it makes, or "encode" when it leaves a toBuffer pending.
createEmptyResponse(format, color) ==
    IF format = "" \/ format = "pbf"
    THEN CbResponse(EmptyBuffer)
    ELSE IF CacheKey(format, color) \in cachedEmptyResponses
    THEN CbResponse(Placeholder(CacheKey(format, color)))
    ELSE IF ~ColorParses(NormalColor(color))
            \/ NormalFormat(format) \notin SharpFormats
    THEN CbError
    ELSE [type |-> "encode", value |-> NoResp]

\* The call ends with callback cb, or waits for the toBuffer callback.
AfterEmptyResponse(c, call, format, color) ==
    LET cb == createEmptyResponse(format, color)
    IN IF cb.type = "encode"
       THEN [call EXCEPT !.pc = "encoding", !.emptyKey = CacheKey(format, color)]
       ELSE [call EXCEPT !.pc = "done", !.callbacks = Append(@, cb)]

\* The toBuffer callback of createEmptyResponse.
EmptyResponseEncoded(c, err) ==
    /\ calls[c].pc = "encoding"
    /\ IF err
       THEN /\ calls' = [calls EXCEPT ![c].pc = "done",
                                      ![c].encodeErr = TRUE,
                                      ![c].callbacks = Append(@, CbError)]
            /\ UNCHANGED cachedEmptyResponses
       ELSE /\ calls' = [calls EXCEPT ![c].pc = "done",
                           ![c].callbacks =
                               Append(@, CbResponse(Placeholder(calls[c].emptyKey)))]
            /\ cachedEmptyResponses' =
                    cachedEmptyResponses \cup {calls[c].emptyKey}
    /\ UNCHANGED <<nonResolverVars, externalRequestCache, fetchCount, cachedBy>>

\* A throw in the async request function: the promise it returned is
\* rejected and the callback is not called.
Throw(call) == [call EXCEPT !.pc = "rejected"]

\* ---- archive tiles (mbtiles://, pmtiles://)
\* fetchTileData: null when getPMtilesTile gives no tile or MBTiles getTile
\* fails, the tile otherwise.
FetchTileResults == {"null", "tile"}

\* fetchTile == null && sourceInfo.sparse == true
SparseMiss(fetchTile, info) == fetchTile = "null" /\ info.sparse = TRUE

CacheHit_Never(cachedResponse) == FALSE

\* if (cachedResponse)
CacheHit(cachedResponse) == cachedResponse.found

\* The request callback up to its first await.
ResolverRequest(c, req) ==
    /\ calls[c].pc = "idle"
    /\ \A q \in Calls : q < c => calls[q].pc # "idle"
    /\ IF req.protocol \in {"mbtiles", "pmtiles"}
       THEN /\ calls' = [calls EXCEPT ![c] =
                            [IdleCall EXCEPT !.pc = "fetchTile", !.req = req]]
            /\ UNCHANGED <<externalRequestCache, fetchCount>>
       ELSE IF req.protocol = "file"
       THEN /\ calls' = [calls EXCEPT ![c] =
                            [IdleCall EXCEPT !.pc = "existsP", !.req = req]]
            /\ UNCHANGED <<externalRequestCache, fetchCount>>
       ELSE LET cachedResponse == LRUGet(externalRequestCache, req.target)
                prior == IF LRUHas(externalRequestCache, req.target)
                         THEN cachedBy[req.target] ELSE NoCallId
            IN /\ externalRequestCache' =
                        LRUTouch(externalRequestCache, req.target)
               /\ IF CacheHit(cachedResponse)
                  THEN /\ calls' = [calls EXCEPT ![c] =
                             [IdleCall EXCEPT
                                 !.pc = "done", !.req = req, !.prior = prior,
                                 !.callbacks =
                                     <<CbResponse(cachedResponse.value)>>]]
                       /\ UNCHANGED fetchCount
                  ELSE /\ calls' = [calls EXCEPT ![c] =
                             [IdleCall EXCEPT
                                 !.pc = "fetching", !.req = req,
                                 !.prior = prior, !.fetched = TRUE]]
                       /\ fetchCount' =
                               [fetchCount EXCEPT ![req.target] = @ + 1]
    /\ UNCHANGED <<nonResolverVars, cachedEmptyResponses, cachedBy>>

\* After `await fetchTileData(..)`: the tile, the sparse signal or the empty
\* response. gunzip tells whether a gzipped pbf tile could be unzipped.
ArchiveTileFetched(c, fetchTile, lastModified, gunzip) ==
    /\ calls[c].pc = "fetchTile"
    /\ LET info == sourceInfo(calls[c].req.target)
           call == [calls[c] EXCEPT !.fetchTile = fetchTile]
       IN calls' = [calls EXCEPT ![c] =
            IF SparseMiss(fetchTile, info)
            THEN [call EXCEPT !.pc = "done", !.callbacks = Append(@, CbAbsent)]
            ELSE IF fetchTile = "null"
            THEN AfterEmptyResponse(c, call, info.format, info.color)
            ELSE IF info.format = "pbf" /\ gunzip = "fails"
            THEN Throw(call)
            ELSE [call EXCEPT !.pc = "done",
                    !.callbacks = Append(@,
                        CbResponse(Resp(<<"tile">>,
                            IF lastModified = "" THEN <<>> ELSE Date(lastModified),
                            <<>>, "")))]]
    /\ UNCHANGED <<nonResolverVars, externalRequestCache, cachedEmptyResponses,
                   fetchCount, cachedBy>>

\* ---- http:// and https://
\* What the remote server may answer: last-modified, expires and etag headers
\* (empty when the header is missing) and the body.
ServerResponses ==
    { [lastModified |-> "m1", expires |-> "", etag |-> "e1", body |-> <<"v1">>],
      [lastModified |-> "", expires |-> "x2", etag |-> "", body |-> <<"v2">>] }

\* `await fetch(..)` ends: rejected (network error, abort after 10 s), or a
\* response with a status.
FetchOutcomes == {"rejected", "410", "404", "200"}

\* The headers of the response, as parsedResponse keeps them.
ParsedHeaders(h) ==
    Resp(<<"null">>,
         IF h.lastModified = "" THEN <<>> ELSE Date(h.lastModified),
         IF h.expires = "" THEN <<>> ELSE Date(h.expires),
         h.etag)

HttpCatch_Fail(c) ==
    [calls[c] EXCEPT !.pc = "done", !.caught = TRUE,
                     !.callbacks = Append(@, CbError)]

\* The catch block: an empty response of the format of the URL's extension.
HttpCatch(c) ==
    AfterEmptyResponse(c, [calls[c] EXCEPT !.caught = TRUE],
                       extensionToFormat(extname(calls[c].req.target)), "")

CacheAfterFailure_Placeholder(cache, key) ==
    LRUSet(cache, key, Resp(EmptyBuffer, <<>>, <<>>, ""))

\* The cache after a 410 answer or the catch block: neither writes it.
CacheAfterFailure(cache, key) == cache

\* After `await fetch(..)`.
HttpFetched(c, outcome, h) ==
    /\ calls[c].pc = "fetching"
    /\ calls' = [calls EXCEPT ![c] =
          IF outcome = "rejected" THEN HttpCatch(c)
          ELSE IF outcome = "410"
          THEN [calls[c] EXCEPT !.pc = "done",
                                !.callbacks = Append(@, CbAbsent)]
          ELSE IF outcome # "200" THEN HttpCatch(c)
          ELSE [calls[c] EXCEPT !.pc = "reading",
                                !.response = ParsedHeaders(h)]]
    /\ externalRequestCache' =
          IF outcome = "200" THEN externalRequestCache
          ELSE CacheAfterFailure(externalRequestCache, calls[c].req.target)
    /\ UNCHANGED <<nonResolverVars, cachedEmptyResponses, fetchCount, cachedBy>>

\* After `await response.arrayBuffer()`: the response is cached and handed
\* to the renderer, or the catch block runs.
HttpBodyRead(c, ok, body) ==
    /\ calls[c].pc = "reading"
    /\ IF ok
       THEN LET parsedResponse == [calls[c].response EXCEPT !.data = body]
            IN /\ externalRequestCache' =
                      LRUSet(externalRequestCache, calls[c].req.target,
                             parsedResponse)
               /\ cachedBy' = [cachedBy EXCEPT ![calls[c].req.target] = c]
               /\ calls' = [calls EXCEPT ![c].pc = "done",
                              ![c].response = parsedResponse,
                              ![c].callbacks =
                                  Append(@, CbResponse(parsedResponse))]
       ELSE /\ calls' = [calls EXCEPT ![c] = HttpCatch(c)]
            /\ externalRequestCache' =
                  CacheAfterFailure(externalRequestCache, calls[c].req.target)
            /\ UNCHANGED cachedBy
    /\ UNCHANGED <<nonResolverVars, cachedEmptyResponses, fetchCount>>

\* ---- file://
\* existsP(file), and the isFile() and size of fsp.stat(file)
FileStats(f) ==
    CASE f = "missing.geojson" -> [exists |-> FALSE, isFile |-> FALSE, size |-> 0]
      [] f = "dir" -> [exists |-> TRUE, isFile |-> FALSE, size |-> 4096]
      [] f = "empty.geojson" -> [exists |-> TRUE, isFile |-> TRUE, size |-> 0]
      [] OTHER -> [exists |-> TRUE, isFile |-> TRUE, size |-> 10]

\* After `await existsP(file)`.
FileExists(c) ==
    /\ calls[c].pc = "existsP"
    /\ calls' = [calls EXCEPT ![c] =
            IF FileStats(calls[c].req.target).exists
            THEN [calls[c] EXCEPT !.pc = "stat"]
            ELSE Throw(calls[c])]
    /\ UNCHANGED <<nonResolverVars, externalRequestCache, cachedEmptyResponses,
                   fetchCount, cachedBy>>

\* After `await fsp.stat(file)`: the check of the stats, and readFile.
FileStat(c) ==
    /\ calls[c].pc = "stat"
    /\ LET inputFileStats == FileStats(calls[c].req.target)
       IN calls' = [calls EXCEPT ![c] =
            IF ~inputFileStats.isFile \/ inputFileStats.size = 0
            THEN Throw(calls[c])
            ELSE [calls[c] EXCEPT !.pc = "readFile", !.read = TRUE]]
    /\ UNCHANGED <<nonResolverVars, externalRequestCache, cachedEmptyResponses,
                   fetchCount, cachedBy>>

\* readFile(file).then(..).catch(..)
FileRead(c, err) ==
    /\ calls[c].pc = "readFile"
    /\ calls' = [calls EXCEPT ![c].pc = "done",
            ![c].callbacks =
                Append(@, IF err THEN CbError
                          ELSE CbResponse(Resp(<<"file">>, <<>>, <<>>, "")))]
    /\ UNCHANGED <<nonResolverVars, externalRequestCache, cachedEmptyResponses,
                   fetchCount, cachedBy>>

InitResolver ==
    /\ ResolverAtRest
    /\ ClientAtRest
    /\ PoolAtRest
    /\ S3AtRest
    /\ CallsAtRest

NextResolver ==
    \/ \E c \in Calls,
          req \in ArchiveRequests \cup HttpRequests \cup FileRequests :
            ResolverRequest(c, req)
    \/ \E c \in Calls, fetchTile \in FetchTileResults,
          lastModified \in {"", "m0"}, gunzip \in {"ok", "fails"} :
            ArchiveTileFetched(c, fetchTile, lastModified, gunzip)
    \/ \E c \in Calls, err \in BOOLEAN : EmptyResponseEncoded(c, err)
    \/ \E c \in Calls, outcome \in FetchOutcomes, h \in ServerResponses :
            HttpFetched(c, outcome, h)
    \/ \E c \in Calls, ok \in BOOLEAN, h \in ServerResponses :
            HttpBodyRead(c, ok, h.body)
    \/ \E c \in Calls : FileExists(c)
    \/ \E c \in Calls : FileStat(c)
    \/ \E c \in Calls, err \in BOOLEAN : FileRead(c, err)

SpecResolver == InitResolver /\ [][NextResolver]_vars

\* ------------------------------------------ pmtiles_adapter.js: S3Source
\* The position of the first ch of str, 0 when there is none.
IndexOf(str, ch) ==
    IF Contains(str, ch)
    THEN CHOOSE i \in 1 .. Len(str) :
            str[i] = ch /\ \A j \in 1 .. i - 1 : str[j] # ch
    ELSE 0

Before1(str, i) == SubSeq(str, 1, i - 1)
After(str, i) == SubSeq(str, i + 1, Len(str))

NoMatch == [ok |-> FALSE, groups |-> <<>>]

\* /^s3:\/\/([^/]+)\/(.+)$/ on the text after s3://
MatchAws(body) ==
    LET i == IndexOf(body, "/")
    IN IF i > 1 /\ i < Len(body)
       THEN [ok |-> TRUE, groups |-> <<Before1(body, i), After(body, i)>>]
       ELSE NoMatch

\* /^s3:\/\/([^/]+)\/([^/]+)\/(.+)$/
MatchCustomForced(body) ==
    LET first == MatchAws(body)
    IN IF first.ok /\ MatchAws(first.groups[2]).ok
       THEN [ok |-> TRUE,
             groups |-> <<first.groups[1]>> \o MatchAws(first.groups[2]).groups]
       ELSE NoMatch

\* [^/]*\.[^/]+ on a text without slash: a dot with a character after it
DotThenMore(str) == \E i \in 1 .. Len(str) - 1 : str[i] = "."

\* /^s3:\/\/([^/]*\.[^/]+)\/([^/]+)\/(.+)$/
MatchCustomWithDot(body) ==
    LET i == IndexOf(body, "/")
        rest == After(body, i)
    IN IF i > 1 /\ DotThenMore(Before1(body, i)) /\ MatchAws(rest).ok
       THEN [ok |-> TRUE,
             groups |-> <<Before1(body, i)>> \o MatchAws(rest).groups]
       ELSE NoMatch

Https(host) == <<"https://">> \o host

\* buildResult(endpoint, bucket, key), without region, profile, requestPayer
Custom(m) ==
    [ok |-> TRUE, endpoint |-> Https(m.groups[1]), bucket |-> m.groups[2],
     key |-> m.groups[3]]

Aws(m) ==
    [ok |-> TRUE, endpoint |-> <<"null">>, bucket |-> m.groups[1],
     key |-> m.groups[2]]

Invalid == [ok |-> FALSE, endpoint |-> <<>>, bucket |-> <<>>, key |-> <<>>]

AutoDetect_AwsFirst(body) ==
    IF MatchAws(body).ok THEN Aws(MatchAws(body))
    ELSE IF MatchCustomWithDot(body).ok THEN Custom(MatchCustomWithDot(body))
    ELSE Invalid

\* Auto-detection: the custom pattern with a dot first, then the AWS one.
AutoDetect(body) ==
    IF MatchCustomWithDot(body).ok THEN Custom(MatchCustomWithDot(body))
    ELSE IF MatchAws(body).ok THEN Aws(MatchAws(body))
    ELSE Invalid

\* The match of parseS3Url for a format.
MatchFor(body, s3UrlFormat) ==
    IF s3UrlFormat = Str("custom")
    THEN IF MatchCustomForced(body).ok
         THEN Custom(MatchCustomForced(body)) ELSE Invalid
    ELSE IF s3UrlFormat = Str("aws")
    THEN IF MatchAws(body).ok THEN Aws(MatchAws(body)) ELSE Invalid
    ELSE AutoDetect(body)

\* A query string as URLSearchParams reads it: parameter -> value, NullRef
\* for a parameter that is not there. Without parameters there is no query.
QueryParams == {"profile", "region", "requestPayer", "s3UrlFormat"}

NoQuery == [q \in QueryParams |-> NullRef]

HasQuery(query) == query # NoQuery

\* payerVal === 'true' || payerVal === '1'
PayerOf(payerVal) == Bool(payerVal = Str("true") \/ payerVal = Str("1"))

\* process.env.AWS_REGION || 'us-east-1'
DefaultRegion(env) == Or(env, Str("us-east-1"))

\* parseS3Url(url, s3UrlFormat) for the url s3://<body>?<query>
parseS3Url(body, query, s3UrlFormat, env) ==
    LET hint == IF s3UrlFormat \notin {Str("aws"), Str("custom")}
                   /\ Or(s3UrlFormat, Undef) # Undef
                THEN Undef ELSE s3UrlFormat
        format == IF HasQuery(query)
                  THEN Nullish(hint, query["s3UrlFormat"]) ELSE hint
        m == MatchFor(body, format)
    IN [ok |-> m.ok, endpoint |-> m.endpoint, bucket |-> m.bucket,
        key |-> m.key,
        region |-> IF HasQuery(query)
                   THEN Nullish(query["region"], DefaultRegion(env))
                   ELSE DefaultRegion(env),
        profile |-> IF HasQuery(query)
                    THEN Nullish(query["profile"], NullRef) ELSE NullRef,
        requestPayer |-> IF HasQuery(query)
                         THEN PayerOf(query["requestPayer"]) ELSE Bool(FALSE)]

\* The message of the Error parseS3Url throws when no pattern matches.
InvalidLocation(body) ==
    <<"Invalid S3 URL format: ", <<"s3://">> \o body,
      "Expected formats:",
      "  AWS S3: s3://bucket-name/path/to/file.pmtiles",
      "  Custom endpoint: s3://endpoint.com/bucket/path/to/file.pmtiles",
      "Use s3UrlFormat parameter to override auto-detection if needed.">>

RequestPayerOf_Or(configRequestPayer, parsed) ==
    Or(configRequestPayer, parsed.requestPayer)

\* this.requestPayer = configRequestPayer ?? parsed.requestPayer
RequestPayerOf(configRequestPayer, parsed) ==
    Nullish(configRequestPayer, parsed.requestPayer)

\* new S3Source(s3Url, s3Profile, configRequestPayer, configRegion,
\* s3UrlFormat); built names the parts the url was put together from.
NewS3Source(built, body, in) ==
    /\ s3Source.pc = "none"
    /\ LET parsed == parseS3Url(body, in.query, in.s3UrlFormat, in.env)
       IN s3Source' =
            IF ~parsed.ok
            THEN [NoS3Source EXCEPT !.pc = "threw", !.body = body,
                                    !.built = built, !.input = <<in>>,
                                    !.error = InvalidLocation(body)]
            ELSE [NoS3Source EXCEPT
                    !.pc = "done", !.body = body, !.built = built,
                    !.input = <<in>>, !.parsed = <<parsed>>,
                    !.source = <<[bucket |-> parsed.bucket, key |-> parsed.key,
                                  endpoint |-> parsed.endpoint,
                                  profile |-> Or(in.s3Profile, parsed.profile),
                                  requestPayer |->
                                      RequestPayerOf(in.configRequestPayer, parsed),
                                  region |-> Or(in.configRegion, parsed.region)]>>]
    /\ UNCHANGED nonS3Vars

\* The arguments and environment of a construction without configuration.
NoConfig ==
    [query |-> NoQuery, s3Profile |-> Undef, configRequestPayer |-> Undef,
     configRegion |-> Undef, s3UrlFormat |-> Undef, env |-> Undef]

Formats == {Undef, Str("aws"), Str("custom"), Str("auto")}

\* Length of the longest text after s3:// tried as a location.
MaxBodyLen == 6

\* Every text after s3:// up to that length.
Locations == StringsUpTo(MaxBodyLen)

\* Format hints of the caller: unset, null, the two formats, an unknown
\* name and the empty string.
Hints == Formats \cup {NullRef, Str("")}

Queries ==
    { q \in [QueryParams -> {NullRef, Str(""), Str("p"), Str("true"),
                             Str("1"), Str("TRUE"), Str("aws")}] :
        /\ q["profile"] \in {NullRef, Str(""), Str("p")}
        /\ q["region"] \in {NullRef, Str(""), Str("p")}
        /\ q["requestPayer"] \in {NullRef, Str("true"), Str("1"), Str("TRUE")}
        /\ q["s3UrlFormat"] \in {NullRef, Str("aws")} }

Configs ==
    [query : Queries,
     s3Profile : {Undef, Str(""), Str("c")},
     configRequestPayer : {Undef, NullRef, Bool(TRUE), Bool(FALSE)},
     configRegion : {Undef, Str(""), Str("c")},
     s3UrlFormat : {Undef},
     env : {Undef, Str("e")}]

Slash == <<"/">>

InitS3 ==
    /\ S3AtRest
    /\ CallsAtRest
    /\ ClientAtRest
    /\ PoolAtRest
    /\ ResolverAtRest

\* s3://bucket/key and s3://endpoint/bucket/key for every format hint, one
\* url with every query and configuration, and every location with every
\* hint of the caller and of the url.
NextS3 ==
    \/ \E b \in Buckets, k \in Keys, f \in Formats :
            NewS3Source(<<<<"null">>, b, k>>, b \o Slash \o k,
                        [NoConfig EXCEPT !.s3UrlFormat = f])
    \/ \E e \in Endpoints, b \in Buckets, k \in Keys, f \in Formats :
            NewS3Source(<<e, b, k>>, e \o Slash \o b \o Slash \o k,
                        [NoConfig EXCEPT !.s3UrlFormat = f])
    \/ \E in \in Configs :
            NewS3Source(<<<<"null">>, <<"a">>, <<"a">>>>, <<"a", "/", "a">>, in)
    \/ \E body \in Locations, hint \in Hints, param \in {NullRef, Str("aws")} :
            NewS3Source(<<>>, body,
                        [NoConfig EXCEPT
                            !.s3UrlFormat = hint,
                            !.query = [NoQuery EXCEPT !["s3UrlFormat"] = param]])

SpecS3 == InitS3 /\ [][NextS3]_vars

\* ------------------------------------------------ render.js: the overlay
\* Number of path query values of one static request.
MaxPaths == 2
\* Number of markers of one static request.
MaxMarkers == 2

\* A path query value is a list of parts separated by '|'. A part is an
\* option name:value, here <<name, value>>, or a coordinate pair, here
\* <<"pair", "ok">> when parseCoordinates accepts it and <<"pair", "bad">>
\* when it gives null.
OptionNames == {"fill", "stroke", "width", "border", "borderwidth"}

\* part.includes(':') && !part.startsWith('enc:')
IsStyleOption(part) == part[1] \in OptionNames

\* An option that is absent is <<>>, one that is present is <<value>>.
Absent == <<>>
Given(value) == <<value>>

\* ---- extractPathsFromQuery
RECURSIVE FirstGeometryIndex(_, _)
\* The loop over parts.entries(): the index, from 0, of the first part
\* that is no style option, and 0 when there is none.
FirstGeometryIndex(parts, index) ==
    IF index >= Len(parts) THEN 0
    ELSE IF IsStyleOption(parts[index + 1])
    THEN FirstGeometryIndex(parts, index + 1)
    ELSE index

\* parts.slice(firstGeometryIndex) when a geometry was found after options
GeometryOf(parts) ==
    LET first == FirstGeometryIndex(parts, 0)
    IN IF first > 0 THEN SubSeq(parts, first + 1, Len(parts)) ELSE parts

IsCoordinate(part) == part = <<"pair", "ok">>

\* The coordinates of one path query value: its parts with two numbers that
\* parseCoordinates accepts.
CurrentPath(parts) == SelectSeq(GeometryOf(parts), IsCoordinate)

\* providedPaths: query.path as an array
ProvidedPaths(query) == query.path

RECURSIVE ExtractFrom(_, _)
\* The paths with coordinates, in the order of the query values. `from` is
\* the position of the value a path was parsed from; the program does not
\* keep it.
ExtractFrom(provided, index) ==
    IF index > Len(provided) THEN <<>>
    ELSE LET coords == CurrentPath(provided[index])
         IN (IF Len(coords) > 0
             THEN <<[coords |-> coords, from |-> index]>>
             ELSE <<>>) \o ExtractFrom(provided, index + 1)

extractPathsFromQuery(query) == ExtractFrom(ProvidedPaths(query), 1)

\* ---- drawPath
DEFAULT_FILL_COLOR == "rgba(255,255,255,0.4)"
DEFAULT_STROKE_COLOR == "rgba(0,64,255,0.7)"
\* Widths are in tenths of a pixel.
DEFAULT_LINE_WIDTH == 10
MAX_LINE_WIDTH == 5000
MAX_BORDER_WIDTH == 2500

NamedColors == {"red", "blue", "green"}

isValidColor(color) ==
    color \in NamedColors \cup {"none", "transparent",
                                DEFAULT_FILL_COLOR, DEFAULT_STROKE_COLOR}

\* splitPaths.find((x) => x.startsWith(`${optionName}:`)), then the value
getInlineOption(splitPaths, optionName) ==
    LET found == SelectSeq(splitPaths, LAMBDA part : part[1] = optionName)
    IN IF Len(found) > 0 THEN Given(found[1][2]) ELSE Absent

\* The texts of numbers tried and Number(text), in tenths.
NumberTexts == {"", "0", "2", "3", "4", "5", "600", "-1", "abc"}

isNaN(text) == text \notin (NumberTexts \ {"abc"})

NumberOf(text) ==
    CASE text = "" -> 0
      [] text = "0" -> 0
      [] text = "2" -> 20
      [] text = "3" -> 30
      [] text = "4" -> 40
      [] text = "5" -> 50
      [] text = "600" -> 6000
      [] text = "-1" -> 0 - 10
      [] OTHER -> 0

Min(a, b) == IF a < b THEN a ELSE b
Max(a, b) == IF a > b THEN a ELSE b

safeParseNumber(value, defaultValue, min, max) ==
    IF isNaN(value) THEN defaultValue
    ELSE Max(min, Min(max, NumberOf(value)))

Fill(style) == [op |-> "fill", style |-> style, width |-> 0]
Stroke(style, width) == [op |-> "stroke", style |-> style, width |-> width]

FillOps(query, splitPaths) ==
    LET inlineFill == getInlineOption(splitPaths, "fill")
        pathHasFill == inlineFill # Absent
        fillColor == IF pathHasFill THEN inlineFill[1]
                     ELSE IF query.fill # Absent /\ query.fill[1] # ""
                     THEN query.fill[1]
                     ELSE DEFAULT_FILL_COLOR
    IN IF query.fill # Absent \/ pathHasFill
       THEN IF isValidColor(fillColor) THEN <<Fill(fillColor)>>
            ELSE <<Fill(DEFAULT_FILL_COLOR)>>
       ELSE <<>>

LineWidth(query, splitPaths) ==
    LET inlineWidth == getInlineOption(splitPaths, "width")
    IN IF inlineWidth # Absent
       THEN safeParseNumber(inlineWidth[1], DEFAULT_LINE_WIDTH, 0, MAX_LINE_WIDTH)
       ELSE IF query.width # Absent
       THEN safeParseNumber(query.width[1], DEFAULT_LINE_WIDTH, 0, MAX_LINE_WIDTH)
       ELSE DEFAULT_LINE_WIDTH

\* The default is lineWidth * DEFAULT_BORDER_WIDTH_RATIO.
BorderWidth(query, splitPaths) ==
    LET inlineBorder == getInlineOption(splitPaths, "border")
        inlineBorderWidth == getInlineOption(splitPaths, "borderwidth")
        pathHasBorder == inlineBorder # Absent
        default == LineWidth(query, splitPaths) \div 10
    IN IF pathHasBorder /\ inlineBorderWidth # Absent /\ inlineBorderWidth[1] # ""
       THEN safeParseNumber(inlineBorderWidth[1], default, 0, MAX_BORDER_WIDTH)
       ELSE IF query.borderwidth # Absent
       THEN safeParseNumber(query.borderwidth[1], default, 0, MAX_BORDER_WIDTH)
       ELSE default

FinalBorder(query, splitPaths) ==
    LET inlineBorder == getInlineOption(splitPaths, "border")
    IN IF inlineBorder # Absent THEN inlineBorder ELSE query.border

Visible(color) == isValidColor(color) /\ color \notin {"transparent", "none"}

BorderOps(query, splitPaths) ==
    LET finalBorder == FinalBorder(query, splitPaths)
        lineWidth == LineWidth(query, splitPaths)
        borderWidth == BorderWidth(query, splitPaths)
    IN IF finalBorder # Absent /\ borderWidth > 0 /\ Visible(finalBorder[1])
       THEN <<Stroke(finalBorder[1], lineWidth + borderWidth * 2)>>
       ELSE <<>>

StrokeOps(query, splitPaths) ==
    LET inlineStroke == getInlineOption(splitPaths, "stroke")
        strokeColor == IF inlineStroke # Absent THEN inlineStroke[1]
                       ELSE IF query.stroke # Absent THEN query.stroke[1]
                       ELSE DEFAULT_STROKE_COLOR
        lineWidth == LineWidth(query, splitPaths)
    IN IF Visible(strokeColor) THEN <<Stroke(strokeColor, lineWidth)>>
       ELSE IF ~isValidColor(strokeColor)
       THEN <<Stroke(DEFAULT_STROKE_COLOR, lineWidth)>>
       ELSE <<>>

drawPath_StrokeFirst(path, query, pathQuery) ==
    IF Len(path.coords) < 2 THEN <<>>
    ELSE FillOps(query, pathQuery) \o StrokeOps(query, pathQuery)
         \o BorderOps(query, pathQuery)

\* The fill and stroke calls drawPath makes on the canvas context, in order.
drawPath(path, query, pathQuery) ==
    IF Len(path.coords) < 2 THEN <<>>
    ELSE FillOps(query, pathQuery) \o BorderOps(query, pathQuery)
         \o StrokeOps(query, pathQuery)

\* ---- renderOverlay
\* const pathQuery = Array.isArray(query.path) ? query.path.at(i) : query.path
PathQueryAt(query, i) ==
    IF query.isArray THEN query.path[i + 1] ELSE query.path[1]

RECURSIVE DrawPaths(_, _, _, _)
\* paths.forEach((path, i) => ...), i from 0: the calls made on the canvas,
\* each with the index of the path that made it; the path number `throws`
\* (none for 0) throws in drawPath, which is logged, and makes none.
DrawPaths(paths, query, throws, i) ==
    IF i >= Len(paths) THEN <<>>
    ELSE LET calls_ == IF throws = i + 1 THEN <<>>
                       ELSE drawPath(paths[i + 1], query, PathQueryAt(query, i))
         IN [n \in 1 .. Len(calls_) |->
                [by |-> "path", index |-> i + 1, op |-> calls_[n].op,
                 style |-> calls_[n].style, width |-> calls_[n].width]]
            \o DrawPaths(paths, query, throws, i + 1)

\* How the promise of one drawMarker settles.
MarkerOutcomes == {"drawn", "loadError", "timeout", "drawError"}

\* Largest zoom tried, in half levels: zoom z is written 2 * z.
MaxZoom2 == 6
\* Thousandths of a pixel in a pixel: lengths on the map are in thousandths.
Milli == 1000
\* Math.pow(2, 0.5) in thousandths.
Sqrt2Milli == 1414
\* The tile size renderOverlay takes for the height of the map.
MapTileSize == 512
\* The tile size of new SphericalMercator().
MercatorSize == 256
\* Latitudes are named by the quarter of the world's height they are at,
\* counted from the north edge: 0 is the north edge, 2 the equator, 4 the
\* south edge.
Quarters == 4

\* Math.pow(2, z) in thousandths, for z = z2 / 2.
PowMilli(z2) == Pow2(z2 \div 2) * (IF z2 % 2 = 1 THEN Sqrt2Milli ELSE Milli)

\* 1 << z: the shift count is z converted to a 32-bit integer, its fraction
\* dropped.
ShiftLeft(z2) == Pow2(z2 \div 2)

\* precisePx([x, y], z)[1]: the pixel row of the latitude at zoom 20,
\* scaled by 2^(z - 20).
precisePx(lat, z2) == ((lat * MercatorSize) \div Quarters) * PowMilli(z2)

\* const mapHeight = 512 * (1 << z)
mapHeight(z2) == MapTileSize * ShiftLeft(z2) * Milli

\* center[1] after the vertical clamp of renderOverlay, for a viewport of
\* h pixels.
ClampedCenter(lat, z2, h) ==
    LET c == precisePx(lat, z2)
        maxEdge == c + (h * Milli) \div 2
        minEdge == c - (h * Milli) \div 2
    IN IF maxEdge > mapHeight(z2) THEN c - (maxEdge - mapHeight(z2))
       ELSE IF minEdge < 0 THEN c - minEdge
       ELSE c

\* The zoom, latitude and viewport height of a static request, and the
\* center renderOverlay draws with.
View(z2, lat, h) ==
    [z2 |-> z2, lat |-> lat, h |-> h, centerY |-> ClampedCenter(lat, z2, h)]

\* handleStaticRequest up to renderOverlay's `await drawMarkers`:
\* extractPathsFromQuery, the early return of renderOverlay without paths
\* and markers, the drawing of the paths and the start of every marker.
RenderOverlay(query, markerCount, throws, view) ==
    /\ overlayCall.pc = "none"
    /\ LET paths == extractPathsFromQuery(query)
           markers == [m \in 1 .. markerCount |-> "pending"]
       IN overlayCall' =
            IF Len(paths) = 0 /\ Len(markers) = 0
            THEN [NoOverlayCall EXCEPT !.pc = "done", !.query = <<query>>,
                                       !.result = "null"]
            ELSE [NoOverlayCall EXCEPT
                    !.pc = "drawMarkers", !.query = <<query>>,
                    !.paths = paths, !.markers = markers, !.throws = throws,
                    !.view = <<View(view[1], view[2], view[3])>>,
                    !.canvas = DrawPaths(paths, query, throws, 0)]
    /\ UNCHANGED <<nonCallVars, getBytesCall, markerCall, dataCall>>

\* The promise of drawMarker settles: the image is drawn, or the promise is
\* rejected (load error, 5 s timeout, error while drawing).
MarkerSettled(m, outcome) ==
    /\ overlayCall.pc = "drawMarkers"
    /\ m \in 1 .. Len(overlayCall.markers)
    /\ overlayCall.markers[m] = "pending"
    /\ overlayCall' =
         [overlayCall EXCEPT
            !.markers[m] = outcome,
            !.canvas = IF outcome = "drawn"
                       THEN Append(@, [by |-> "marker", index |-> m,
                                       op |-> "drawImage", style |-> "",
                                       width |-> 0])
                       ELSE @]
    /\ UNCHANGED <<nonCallVars, getBytesCall, markerCall, dataCall>>

AllSettled_All(markers) ==
    \/ \A m \in 1 .. Len(markers) : markers[m] # "pending"
    \/ \E m \in 1 .. Len(markers) : markers[m] \notin {"pending", "drawn"}

\* Promise.allSettled(markerPromises)
AllSettled(markers) == \A m \in 1 .. Len(markers) : markers[m] # "pending"

\* drawMarkers returns and renderOverlay returns canvas.toBuffer().
OverlayReturn ==
    /\ overlayCall.pc = "drawMarkers"
    /\ AllSettled(overlayCall.markers)
    /\ overlayCall' = [overlayCall EXCEPT !.pc = "done", !.result = "buffer"]
    /\ UNCHANGED <<nonCallVars, getBytesCall, markerCall, dataCall>>

\* ---- the static requests tried
Colors == {"red", "blue"}

PathParts ==
    {<<>>, <<<<"pair", "bad">>>>, <<<<"pair", "ok">>, <<"pair", "ok">>>>}

\* Path query values with an inline fill or none, and no, unparsable or two
\* coordinates.
FillDescriptors ==
    {o \o g : o \in {<<>>} \cup {<<<<"fill", c>>>> : c \in Colors},
              g \in PathParts}

NoStyle ==
    [path |-> <<>>, isArray |-> TRUE, fill |-> Absent, stroke |-> Absent,
     width |-> Absent, border |-> Absent, borderwidth |-> Absent]

\* Static requests with up to MaxPaths path values.
PathQueries ==
    {[NoStyle EXCEPT !.path = p] :
        p \in UNION {[1 .. n -> FillDescriptors] : n \in 0 .. MaxPaths}}

TwoCoordinates == <<<<"pair", "ok">>, <<"pair", "ok">>>>

\* One path value with every choice of inline options, as a string.
StyledDescriptors ==
    {f \o s \o w \o b \o bw \o TwoCoordinates :
        f \in {<<>>, <<<<"fill", "red">>>>},
        s \in {<<>>, <<<<"stroke", "red">>>>},
        w \in {<<>>, <<<<"width", "5">>>>},
        b \in {<<>>, <<<<"border", "blue">>>>},
        bw \in {<<>>, <<<<"borderwidth", "2">>>>}}

\* Static requests with one path value and every choice of global options.
StyleQueries ==
    {[path |-> <<d>>, isArray |-> FALSE, fill |-> f, stroke |-> s,
      width |-> w, border |-> b, borderwidth |-> bw] :
        d \in StyledDescriptors,
        f \in {Absent, Given("green")},
        s \in {Absent, Given("green")},
        w \in {Absent, Given("3")},
        b \in {Absent, Given("green")},
        bw \in {Absent, Given("4")}}

\* Static requests with one bordered path value and every number text as
\* its width and border width, inline or global.
WidthQueries ==
    {[NoStyle EXCEPT !.path = <<<<<<"border", "blue">>, <<"width", w>>,
                                 <<"borderwidth", bw>>>> \o TwoCoordinates>>] :
        w \in NumberTexts, bw \in NumberTexts}
    \cup
    {[NoStyle EXCEPT !.path = <<TwoCoordinates>>, !.border = Given("blue"),
                     !.width = Given(w), !.borderwidth = Given(bw)] :
        w \in NumberTexts, bw \in NumberTexts}

\* The view of the requests whose paths and markers are varied: zoom 1,
\* the equator, 256 pixels high.
DefaultView == <<2, 2, 256>>

\* The viewport heights tried: lower than every map, as high as the map of
\* zoom 0, between the maps of zoom 0 and 1, higher than the map of zoom 1.
Heights == {100, 512, 600, 2000}

\* The views tried: every half zoom level, every quarter latitude, every
\* height.
Views == (0 .. MaxZoom2) \X (0 .. Quarters) \X Heights

InitOverlay ==
    /\ CallsAtRest
    /\ S3AtRest
    /\ ClientAtRest
    /\ PoolAtRest
    /\ ResolverAtRest

NextOverlay ==
    \/ \E query \in PathQueries, n \in 0 .. MaxMarkers, throws \in 0 .. MaxPaths :
            RenderOverlay(query, n, throws, DefaultView)
    \/ \E query \in StyleQueries \cup WidthQueries :
            RenderOverlay(query, 0, 0, DefaultView)
    \/ \E m \in 1 .. MaxMarkers, outcome \in MarkerOutcomes :
            MarkerSettled(m, outcome)
    \/ OverlayReturn

SpecOverlay == InitOverlay /\ [][NextOverlay]_vars

\* Static requests with one marker, at every view tried.
InitClamp == InitOverlay

NextClamp ==
    \/ \E view \in Views, n \in 0 .. 1 : RenderOverlay(NoStyle, n, 0, view)
    \/ \E outcome \in MarkerOutcomes : MarkerSettled(1, outcome)
    \/ OverlayReturn

SpecClamp == InitClamp /\ [][NextClamp]_vars

\* ---------------------------------------- serve_rendered: marker options
\* Number of option strings of one marker.
MaxOptions == 2

\* The number texts tried and parseFloat(text), in tenths.
FloatTexts == {"", "abc", "0", "0.5", "2", "9.9", "10", "20", "-5",
               "999.9", "1000", "-1000"}

parseFloat(text) ==
    CASE text = "0" -> 0
      [] text = "0.5" -> 5
      [] text = "2" -> 20
      [] text = "9.9" -> 99
      [] text = "10" -> 100
      [] text = "20" -> 200
      [] text = "-5" -> 0 - 50
      [] text = "999.9" -> 9999
      [] text = "1000" -> 10000
      [] text = "-1000" -> 0 - 10000
      [] OTHER -> 0

isNaNFloat(text) == text \in {"", "abc"}

Abs(n) == IF n < 0 THEN 0 - n ELSE n

\* An option string split at ':' and its value split at ',': <<name>>
\* without a colon, else <<name, <<number text, ...>>>>.
NewMarker == [scale |-> Absent, offsetX |-> Absent, offsetY |-> Absent]

ValidScale(text) ==
    ~isNaNFloat(text) /\ parseFloat(text) > 0 /\ parseFloat(text) < 100

ValidOffset(text) == ~isNaNFloat(text) /\ Abs(parseFloat(text)) < 10000

SetScale_ZeroDefault(marker, text) ==
    [marker EXCEPT !.scale = IF ValidScale(text) THEN Given(parseFloat(text))
                             ELSE Given(0)]

\* case 'scale'
SetScale(marker, text) ==
    IF ValidScale(text) THEN [marker EXCEPT !.scale = Given(parseFloat(text))]
    ELSE marker

\* case 'offset'
SetOffset(marker, providedOffset) ==
    LET withX == IF ValidOffset(providedOffset[1])
                 THEN [marker EXCEPT !.offsetX = Given(parseFloat(providedOffset[1]))]
                 ELSE marker
    IN IF Len(providedOffset) > 1 /\ ValidOffset(providedOffset[2])
       THEN [withX EXCEPT !.offsetY = Given(parseFloat(providedOffset[2]))]
       ELSE withX

\* One iteration of the loop of parseMarkerOptions.
ApplyOption(marker, optionParts) ==
    IF Len(optionParts) < 2 THEN marker
    ELSE IF optionParts[1] = <<"scale">> THEN SetScale(marker, optionParts[2][1])
    ELSE IF optionParts[1] = <<"offset">> THEN SetOffset(marker, optionParts[2])
    ELSE marker

RECURSIVE parseMarkerOptions(_, _)
parseMarkerOptions(optionsList, marker) ==
    IF optionsList = <<>> THEN marker
    ELSE parseMarkerOptions(Tail(optionsList),
                            ApplyOption(marker, Head(optionsList)))

\* The option strings tried: scale:n, offset:x, offset:x,y, an unknown
\* option and one without a colon.
MarkerOptions ==
    {<<<<"scale">>, <<t>>>> : t \in FloatTexts}
    \cup {<<<<"offset">>, <<x>>>> : x \in FloatTexts}
    \cup {<<<<"offset">>, <<x, y>>>> : x \in {"10", "abc", "1000"},
                                      y \in {"-5", "", "-1000", "0"}}
    \cup {<<<<"anchor">>, <<"2">>>>, <<<<"scale">>>>}

ParseMarkerOptions(optionsList) ==
    /\ markerCall.pc = "none"
    /\ markerCall' = [pc |-> "done", optionsList |-> optionsList,
                      marker |-> <<parseMarkerOptions(optionsList, NewMarker)>>]
    /\ UNCHANGED <<nonCallVars, getBytesCall, overlayCall, dataCall>>

InitMarker ==
    /\ CallsAtRest
    /\ S3AtRest
    /\ ClientAtRest
    /\ PoolAtRest
    /\ ResolverAtRest

NextMarker ==
    \E optionsList \in UNION {[1 .. n -> MarkerOptions] : n \in 0 .. MaxOptions} :
        ParseMarkerOptions(optionsList)

SpecMarker == InitMarker /\ [][NextMarker]_vars

\* ----------------------------------- pmtiles_adapter.js: S3Source.getBytes
\* Largest offset and length of a byte range tried.
MaxRange == 2

\* The source getBytes is called on: this.bucket, this.key, this.requestPayer.
ByteSources ==
    [bucket : {"bucket"}, key : {"key.pmtiles"}, requestPayer : BOOLEAN]

\* An absent argument or field of the command.
NotSet == <<>>

\* new GetObjectCommand(commandParams)
GetObjectCommand(source, offset, length, etag) ==
    [Bucket |-> source.bucket, Key |-> source.key,
     Range |-> <<"bytes=", offset, "-", offset + length - 1>>,
     IfMatch |-> etag,
     RequestPayer |-> IF source.requestPayer THEN <<"requester">> ELSE NotSet]

\* Names of the errors the S3 client rejects with.
ProviderErrors ==
    {"PreconditionFailed", "NoSuchKey", "AccessDenied", "NoSuchBucket",
     "TimeoutError", "AbortError", "InternalError"}

\* An error object: who made it, its class, its name and its message.
ErrorObject(by, class, name, message) ==
    [by |-> by, class |-> class, name |-> name, message |-> message]

\* How the await of s3Client.send and of the body settles: a response with
\* its ETag and a body that could be read or not, or a rejection.
SendOutcomes ==
    {[kind |-> "response", ETag |-> e, body |-> b, error |-> NotSet] :
        e \in {"etag1", "etag2"}, b \in {"bytes", "none"}}
    \cup {[kind |-> "rejected", ETag |-> "", body |-> "none",
           error |-> <<ErrorObject("provider", "S3ServiceException", n, "")>>] :
            n \in ProviderErrors}

Thrown_NoBucketMapping(source, error) ==
    IF error.name = "PreconditionFailed"
    THEN ErrorObject("getBytes", "EtagMismatch", "Error", "")
    ELSE IF error.name = "NoSuchKey"
    THEN ErrorObject("getBytes", "Error", "Error",
                     <<"PMTiles file not found: ", source.bucket, "/", source.key>>)
    ELSE IF error.name = "AccessDenied"
    THEN ErrorObject("getBytes", "Error", "Error",
                     <<"Access denied: ", source.bucket, "/", source.key,
                       ". Check credentials and bucket permissions.">>)
    ELSE error

\* The catch block of getBytes: what it throws for the error it caught.
Thrown(source, error) ==
    IF error.name = "PreconditionFailed"
    THEN ErrorObject("getBytes", "EtagMismatch", "Error", "")
    ELSE IF error.name = "NoSuchKey"
    THEN ErrorObject("getBytes", "Error", "Error",
                     <<"PMTiles file not found: ", source.bucket, "/", source.key>>)
    ELSE IF error.name = "AccessDenied"
    THEN ErrorObject("getBytes", "Error", "Error",
                     <<"Access denied: ", source.bucket, "/", source.key,
                       ". Check credentials and bucket permissions.">>)
    ELSE IF error.name = "NoSuchBucket"
    THEN ErrorObject("getBytes", "Error", "Error",
                     <<"Bucket not found: ", source.bucket,
                       ". Check bucket name and endpoint.">>)
    ELSE error

\* getBytes(offset, length, signal, etag) up to `await this.s3Client.send`.
GetBytes(source, offset, length, etag) ==
    /\ getBytesCall.pc = "none"
    /\ getBytesCall' =
         [NoGetBytesCall EXCEPT
            !.pc = "sent",
            !.input = <<[source |-> source, offset |-> offset,
                         length |-> length, etag |-> etag]>>,
            !.source = <<source>>,
            !.command = <<GetObjectCommand(source, offset, length, etag)>>]
    /\ UNCHANGED <<nonCallVars, overlayCall, markerCall, dataCall>>

\* The rest of getBytes: the response is read and returned, or the catch
\* block throws.
GetBytesSettled(outcome) ==
    /\ getBytesCall.pc = "sent"
    /\ LET source == getBytesCall.source[1]
           caught == IF outcome.kind = "rejected" THEN outcome.error[1]
                     ELSE ErrorObject("getBytes", "Error", "Error",
                                      "Failed to read S3 response body")
       IN getBytesCall' =
            [getBytesCall EXCEPT
                !.pc = "done",
                !.outcome = <<outcome>>,
                !.result =
                    IF outcome.kind = "response" /\ outcome.body # "none"
                    THEN <<[kind |-> "returned", data |-> outcome.body,
                            etag |-> outcome.ETag, error |-> NotSet]>>
                    ELSE <<[kind |-> "threw", data |-> "", etag |-> "",
                            error |-> <<Thrown(source, caught)>>]>>]
    /\ UNCHANGED <<nonCallVars, overlayCall, markerCall, dataCall>>

InitGetBytes ==
    /\ CallsAtRest
    /\ S3AtRest
    /\ ClientAtRest
    /\ PoolAtRest
    /\ ResolverAtRest

NextGetBytes ==
    \/ \E source \in ByteSources, offset \in 0 .. MaxRange, length \in 1 .. MaxRange,
          etag \in {NotSet, <<"etag1">>} :
            GetBytes(source, offset, length, etag)
    \/ \E outcome \in SendOutcomes : GetBytesSettled(outcome)

SpecGetBytes == InitGetBytes /\ [][NextGetBytes]_vars

\* ------------------------------------------------ serve_data: data tiles
\* Ids of the data sources of the repository of serve_data.
DataIds == {"data"}

\* options.pbfAlias
PbfAlias == "mvt"

\* A registered source: item.tileJSON.format, item.tileJSON.sparse and
\* item.sourceType.
DataItems ==
    [format : {"pbf", "png"}, sparse : BOOLEAN, sourceType : {"pmtiles", "mbtiles"}]

\* A request of /:id/:z/:x/:y.:format; coords tells whether z, x, y are
\* numbers ("nan" when one is not) within the zoom range and the tile grid
\* ("out" when not).
DataRequests ==
    [id : DataIds \cup {"unknown"}, coords : {"ok", "nan", "out"},
     format : {"pbf", "png", "geojson", PbfAlias}]

\* res.sendStatus(status), res.status(status).send(body)
DataResponse(status, body) == [status |-> status, body |-> body]

\* The checks of the handler before the fetch: the response it returns
\* with, <<>> when the request passes.
DataValidation(req, entry) ==
    LET format == IF req.format = PbfAlias THEN "pbf" ELSE req.format
    IN IF req.id \notin DataIds THEN <<DataResponse(404, "Not Found")>>
       ELSE IF req.coords = "nan" THEN <<DataResponse(404, "Invalid Tile")>>
       ELSE IF format # entry.format /\ ~(format = "geojson" /\ entry.format = "pbf")
       THEN <<DataResponse(404, "Invalid format")>>
       ELSE IF req.coords = "out" THEN <<DataResponse(404, "Out of bounds")>>
       ELSE <<>>

PoolsAfterDataRequest_Acquire(p) ==
    [p EXCEPT !["renderers"] = PoolAcquire(@, 1)]

\* serve_data has no reference to the renderer pools of serve_rendered.
PoolsAfterDataRequest(p) == p

\* The handler of a data tile up to `await fetchTileData`.
DataTileRequest(req, entry) ==
    /\ dataCall.pc = "none"
    /\ dataCall' =
         LET invalid == DataValidation(req, entry)
         IN IF invalid # <<>>
            THEN [NoDataCall EXCEPT !.pc = "done", !.req = <<req>>,
                                    !.item = <<entry>>, !.res = invalid]
            ELSE [NoDataCall EXCEPT !.pc = "fetchTileData", !.req = <<req>>,
                                    !.item = <<entry>>]
    /\ pools' = PoolsAfterDataRequest(pools)
    /\ UNCHANGED <<options, nextHandle, hasRender, destroyed, timedOut, pc,
                   mode, renderer, timer, res, released, removed, composeVars,
                   repoVars, clientVars, resolverVars, s3Vars, getBytesCall,
                   overlayCall, markerCall, regVars>>

\* fetchTileData for a PMTiles source: getPMtilesTile(source, z, x, y).
FetchPMtilesTile ==
    /\ dataCall.pc = "fetchTileData"
    /\ dataCall.item[1].sourceType = "pmtiles"
    /\ GetPMtilesTile(Undefined)

\* fetchTileData for an MBTiles source: the callback of source.getTile.
FetchMBTilesTile(err) ==
    /\ dataCall.pc = "fetchTileData"
    /\ dataCall.item[1].sourceType = "mbtiles"
    /\ dataCall.fetchTile = "pending"
    /\ dataCall' = [dataCall EXCEPT !.fetchTile = IF err THEN "null" ELSE "tile"]
    /\ UNCHANGED <<nonCallVars, getBytesCall, overlayCall, markerCall>>

\* What fetchTileData resolves with once the source has answered.
fetchTileData ==
    IF dataCall.item[1].sourceType = "pmtiles"
    THEN IF tileCall.pc # "done" THEN "pending"
         ELSE IF tileCall.result = "tile" THEN "tile"
         ELSE IF tileCall.result = "null" THEN "null"
         ELSE "threw"
    ELSE dataCall.fetchTile

AfterFetch_ErrorStatus(fetchTile, sparse) ==
    IF fetchTile = "null" /\ sparse THEN <<DataResponse(410, "")>>
    ELSE IF fetchTile = "null" THEN <<DataResponse(500, "")>>
    ELSE <<>>

\* if (fetchTile == null && item.tileJSON.sparse) ... else if (fetchTile == null)
AfterFetch(fetchTile, sparse) ==
    IF fetchTile = "null" /\ sparse THEN <<DataResponse(410, "")>>
    ELSE IF fetchTile = "null" THEN <<DataResponse(204, "")>>
    ELSE <<>>

\* The handler after `await fetchTileData`, up to its response for no tile
\* or to the decoding of the tile.
DataTileFetched ==
    /\ dataCall.pc = "fetchTileData"
    /\ fetchTileData # "pending"
    /\ LET fetchTile == fetchTileData
           absent == AfterFetch(fetchTile, dataCall.item[1].sparse)
       IN dataCall' =
            IF fetchTile = "threw"
            THEN [dataCall EXCEPT !.pc = "rejected", !.fetchTile = fetchTile]
            ELSE IF absent # <<>>
            THEN [dataCall EXCEPT !.pc = "done", !.fetchTile = fetchTile,
                                  !.res = absent]
            ELSE [dataCall EXCEPT !.pc = "encode", !.fetchTile = fetchTile]
    /\ UNCHANGED <<nonCallVars, getBytesCall, overlayCall, markerCall>>

\* The rest of the handler: gunzip, decoration, conversion, gzip and the
\* 200 response; throws tells whether one of them throws.
DataTileSent(throws) ==
    /\ dataCall.pc = "encode"
    /\ dataCall' =
         IF throws THEN [dataCall EXCEPT !.pc = "rejected"]
         ELSE [dataCall EXCEPT !.pc = "done",
                               !.res = <<DataResponse(200, "tile")>>]
    /\ UNCHANGED <<nonCallVars, getBytesCall, overlayCall, markerCall>>

InitData ==
    /\ CallsAtRest
    /\ S3AtRest
    /\ ClientAtRest
    /\ PoolAtRest
    /\ ResolverAtRest

\* What an attempt of getPMtilesTile meets in a data-tile request: no
\* tile, a tile, a rate limit, a connection error, a bad response code.
DataTileOutcomes ==
    {o \in TileOutcomes :
        \/ ~IsError(o)
        \/ o.kind = "zxyError" /\ o.message \in {<<"429">>, <<"ECONNRESET">>}
        \/ o.kind = "headerError" /\ o.message = <<"Bad response code:", "404">>}

\* The image requests that run next to the data-tile request.
ImageReqs == {1, 2}

\* One data-tile request next to two tile image requests.
NextData ==
    \/ \E req \in DataRequests, entry \in DataItems : DataTileRequest(req, entry)
    \/ FetchPMtilesTile
    \/ \E o \in DataTileOutcomes : TileAttempt(o)
    \/ TileWakeup
    \/ \E err \in BOOLEAN : FetchMBTilesTile(err)
    \/ DataTileFetched
    \/ \E throws \in BOOLEAN : DataTileSent(throws)
    \/ \E r \in ImageReqs : RespondImage(r, "tile")
    \/ \E k \in PoolKeys : DispenseReady(k)
    \/ \E k \in PoolKeys : DispenseNew(k)
    \/ \E r \in ImageReqs : RenderTimeout(r)
    \/ \E r \in ImageReqs, err \in BOOLEAN : RenderCallback(r, err)
    \/ \E r \in ImageReqs, err \in BOOLEAN : ToBufferCallback(r, err)

SpecData == InitData /\ [][NextData]_vars

\* ------------------------- serve_rendered: registration and validation
\* item.map.renderers[scale] before serve_rendered.add has created the
\* pools: the arrays are empty, the lookup gives undefined.
NoPool ==
    [min |-> 0, max |-> 0, available |-> <<>>, busy |-> {}, queue |-> <<>>,
     closing |-> FALSE]

NoPools == [k \in PoolKeys |-> NoPool]

\* serve_rendered.add from `repo[id] = repoobj` to its first await, or to
\* its end when no source of the style is an archive: awaits tells whether
\* a source has to be opened.
AddRegister(awaits) ==
    /\ addCall.pc = "none"
    /\ repo' = repo \cup {ItemId}
    /\ IF awaits
       THEN /\ addCall' = [addCall EXCEPT !.pc = "awaiting"]
            /\ UNCHANGED pools
       ELSE /\ addCall' = [addCall EXCEPT !.pc = "done"]
            /\ pools' = AddPools(options)
    /\ UNCHANGED <<clientVars, resolverVars, s3Vars, getBytesCall, overlayCall,
                   markerCall, dataCall, dataAddCall, markersCall, composeVars,
                   closeCalls, options, nextHandle, hasRender, destroyed,
                   timedOut, pc, mode, renderer, timer, res, released, removed>>

\* The awaited fsp.stat / getPMtilesInfo / openMbTilesWrapper of the source
\* settles: add goes on to create the pools, or is rejected with the error.
AddSourceSettled(ok) ==
    /\ addCall.pc = "awaiting"
    /\ IF ok
       THEN /\ addCall' = [addCall EXCEPT !.pc = "done"]
            /\ pools' = AddPools(options)
       ELSE /\ addCall' = [addCall EXCEPT !.pc = "failed",
                                           !.error = <<"source">>]
            /\ UNCHANGED pools
    /\ UNCHANGED <<clientVars, resolverVars, s3Vars, getBytesCall, overlayCall,
                   markerCall, dataCall, dataAddCall, markersCall, composeVars,
                   repoVars, options, nextHandle, hasRender, destroyed,
                   timedOut, pc, mode, renderer, timer, res, released, removed>>

\* Numbers are <<n>>, NaN is <<>>; longitudes and latitudes in hundredths
\* of a degree.
NaN == <<>>

Num(n) == <<n>>

\* options.maxSize || 2048
DefaultMaxSize == 2048
\* Math.abs(lon) > 180, in hundredths
MaxLon == 18000
\* Math.abs(lat) > 85.06, in hundredths
MaxLat == 8506
\* z > 22
MaxTileZoom == 22

AbsGreater(n, limit) == n # NaN /\ (n[1] > limit \/ -n[1] > limit)

\* The checks of respondImage before pool.acquire: the response of the one
\* that fails, or none.
RespondImageCheck(input, m) ==
    IF \/ AbsGreater(input.lon, MaxLon)
       \/ AbsGreater(input.lat, MaxLat)
       \/ input.lon = NaN
       \/ input.lat = NaN
    THEN <<Response(400, "Invalid center")>>
    ELSE IF \/ (input.width # NaN /\ input.height # NaN
                /\ Max2(-input.width[1], -input.height[1]) >= 0)
            \/ (input.width # NaN /\ input.height # NaN
                /\ Max2(input.width[1], input.height[1]) * input.scale
                     > DefaultMaxSize)
            \/ input.width = NaN
            \/ input.height = NaN
    THEN <<Response(400, "Invalid size")>>
    ELSE IF input.format \notin {"png", "webp", "jpg", "jpeg"}
    THEN <<Response(400, "Invalid format")>>
    ELSE IF pools[PoolOf(m)] = NoPool
    THEN <<Response(500, "Renderer pool not configured")>>
    ELSE <<>>

PoolsAfterRejection_Acquire(r, m) ==
    [pools EXCEPT ![PoolOf(m)] = PoolAcquire(@, r)]

\* The pools after a request was answered by one of the checks.
PoolsAfterRejection(r, m) == pools

\* A request answered before pool.acquire.
Rejected(r, m, response) ==
    /\ res' = [res EXCEPT ![r] = response]
    /\ pc' = [pc EXCEPT ![r] = "done"]
    /\ mode' = [mode EXCEPT ![r] = m]
    /\ pools' = PoolsAfterRejection(r, m)
    /\ UNCHANGED <<nonPoolVars, options, nextHandle, hasRender, destroyed,
                   timedOut, renderer, timer, released, removed, composeVars>>

\* respondImage from its first line to pool.acquire.
RespondImageWith(r, m, input) ==
    /\ pc[r] = "idle"
    /\ \A q \in Reqs : q < r => pc[q] # "idle"
    /\ ItemId \in repo
    /\ LET response == RespondImageCheck(input, m)
       IN IF response # <<>>
          THEN Rejected(r, m, response)
          ELSE RespondImage(r, m)

\* allowedScales(scaleParam, maxScaleFactor) for the scale parameters
\* tried: none, and one above maxScaleFactor.
allowedScales(scaleParam) == IF scaleParam = "undefined" THEN <<1>> ELSE <<>>

\* parseInt(allowedTileSizes(tileSize), 10), or the default tile size.
ParsedTileSize(tileSize) ==
    IF tileSize = "undefined" THEN Num(256)
    ELSE IF tileSize \in {"256", "512"} THEN Num(IF tileSize = "256" THEN 256 ELSE 512)
    ELSE NaN

\* handleTileRequest: the lookup of the item, the 304 answer, the bounds
\* check, and respondImage for the center of the tile.
HandleTileRequest(r, t) ==
    /\ pc[r] = "idle"
    /\ \A q \in Reqs : q < r => pc[q] # "idle"
    /\ IF t.id \notin repo
       THEN Rejected(r, "tile", <<Response(404, "Not Found")>>)
       ELSE IF /\ t.modifiedSince # "undefined"
               /\ ~t.noCache
               /\ t.modifiedSince = "lastModified"
       THEN Rejected(r, "tile", <<Response(304, "Not Modified")>>)
       ELSE IF \/ allowedScales(t.scale) = <<>>
               \/ t.z < 0 \/ t.x < 0 \/ t.y < 0
               \/ t.z > MaxTileZoom
               \/ t.x >= Pow2(t.z)
               \/ t.y >= Pow2(t.z)
       THEN Rejected(r, "tile", <<Response(400, "Out of bounds")>>)
       ELSE RespondImageWith(r, "tile",
                [lon |-> Num(0), lat |-> Num(0),
                 width |-> ParsedTileSize(t.tileSize),
                 height |-> ParsedTileSize(t.tileSize),
                 scale |-> allowedScales(t.scale)[1],
                 format |-> t.format])

\* The tile requests tried.
TileRequests ==
    [id : {ItemId, "other"},
     modifiedSince : {"undefined", "lastModified", "earlier"},
     noCache : BOOLEAN,
     z : {-1, 1, 23}, x : {0, 2}, y : {0},
     scale : {"undefined", "3x"},
     tileSize : {"undefined", "100"},
     format : {"png", "gif"}]

\* The arguments of respondImage tried for static requests.
StaticInputs ==
    [lon : {Num(0), Num(-18001), NaN},
     lat : {Num(0), Num(8507)},
     width : {Num(256), Num(0), Num(4096), NaN},
     height : {Num(256)},
     scale : {1},
     format : {"png", "jpg", "gif"}]

\* The requests followed from acquire to response.
AddReqs == {1, 2}

InitAdd ==
    /\ options \in PoolOptions
    /\ overlay = NoOverlays
    /\ pools = NoPools
    /\ repo = {}
    /\ nextHandle = 1
    /\ hasRender = <<>>
    /\ destroyed = {}
    /\ timedOut = {}
    /\ pc = [r \in Reqs |-> "idle"]
    /\ mode = [r \in Reqs |-> "tile"]
    /\ renderer = [r \in Reqs |-> NoRenderer]
    /\ timer = [r \in Reqs |-> "unset"]
    /\ res = [r \in Reqs |-> <<>>]
    /\ released = [r \in Reqs |-> 0]
    /\ removed = [r \in Reqs |-> 0]
    /\ steps = [r \in Reqs |-> <<>>]
    /\ composites = [r \in Reqs |-> <<>>]
    /\ closeCalls = [k \in PoolKeys |-> 0]
    /\ ClientAtRest
    /\ ResolverAtRest
    /\ S3AtRest
    /\ getBytesCall = NoGetBytesCall
    /\ overlayCall = NoOverlayCall
    /\ markerCall = NoMarkerCall
    /\ dataCall = NoDataCall
    /\ addCall = [AddDone EXCEPT !.pc = "none"]
    /\ dataAddCall = NoDataAddCall
    /\ markersCall = NoMarkersCall

NextAdd ==
    \/ \E awaits \in BOOLEAN : AddRegister(awaits)
    \/ \E ok \in BOOLEAN : AddSourceSettled(ok)
    \/ \E r \in AddReqs, t \in TileRequests : HandleTileRequest(r, t)
    \/ \E r \in AddReqs, input \in StaticInputs : RespondImageWith(r, "static", input)
    \/ \E k \in PoolKeys : DispenseReady(k)
    \/ \E k \in PoolKeys : DispenseNew(k)
    \/ \E r \in AddReqs : RenderTimeout(r)
    \/ \E r \in AddReqs, err \in BOOLEAN : RenderCallback(r, err)
    \/ \E r \in AddReqs, err \in BOOLEAN : ToBufferCallback(r, err)

SpecAdd == InitAdd /\ [][NextAdd]_vars

\* ------------------------------------------------------ serve_data.add
\* What the steps of serve_data.add and extractMarkersFromQuery leave
\* alone, the archive client apart.
besideRegVars == <<poolVars, composeVars, repoVars, resolverVars, s3Vars,
                   getBytesCall, overlayCall, markerCall, dataCall>>

\* The ids data sources are registered under.
DataAddIds == {"data", "terrain"}

\* params of serve_data.add: a PMTiles or MBTiles archive, local or remote.
DataAddParams ==
    {[type |-> "pmtiles", inputFile |-> f] : f \in InputFiles}
    \cup {[type |-> "mbtiles", inputFile |-> "a.mbtiles"]}

\* isValidRemoteUrl(inputFile)
IsRemote(inputFile) == inputFile = "s3://bucket/b.pmtiles"

\* mbw.getInfo() of an MBTiles archive.
MBTilesInfo == [minzoom |-> 0, maxzoom |-> MaxZoom]

\* repo[id] = { tileJSON, publicUrl, source, sourceType }: tileJSON carries
\* the metadata assigned to it.
DataEntry(id, sourceType, metadata) ==
    [id |-> id, sourceType |-> sourceType, tileJSON |-> <<metadata>>]

RepoAfterMetadataFailure_Register(entries, id) ==
    {e \in entries : e.id # id}
        \cup {[id |-> id, sourceType |-> "pmtiles", tileJSON |-> <<>>]}

\* The catch block around getPMtilesInfo logs and returns: the repository
\* is as it was.
RepoAfterMetadataFailure(entries, id) == entries

\* repo[id] = {...} at the end of add.
RepoWith(entries, entry) == {e \in entries : e.id # entry.id} \cup {entry}

\* serve_data.add up to its first await behind the file check: the check of
\* a local file (statOk tells whether it is a non-empty file), openPMtiles
\* and the call of getPMtilesInfo, or openMbTilesWrapper.
DataAdd(id, params, statOk) ==
    /\ dataAddCall.pc = "none"
    /\ infoCall.pc = "none"
    /\ LET call == [dataAddCall EXCEPT !.id = id, !.params = <<params>>,
                                       !.before = dataAddCall.repo]
       IN IF ~IsRemote(params.inputFile) /\ ~statOk
          THEN /\ dataAddCall' = [call EXCEPT !.pc = "rejected",
                                              !.error = <<"Not valid input file">>]
               /\ UNCHANGED infoCall
          ELSE IF params.type = "pmtiles"
          THEN /\ dataAddCall' = [call EXCEPT !.pc = "getPMtilesInfo"]
               /\ infoCall' = InfoLoopHead(
                     [NoCall EXCEPT !.maxRetries = DefaultInfoRetries,
                                    !.inputFile = params.inputFile], <<>>)
          ELSE /\ dataAddCall' = [call EXCEPT !.pc = "getInfo"]
               /\ UNCHANGED infoCall
    /\ UNCHANGED <<besideRegVars, tileCall, addCall, markersCall>>

\* After `await getPMtilesInfo(source, inputFile)`: the entry is stored, or
\* the catch block returns.
DataAddInfoSettled ==
    /\ dataAddCall.pc = "getPMtilesInfo"
    /\ infoCall.pc = "done"
    /\ dataAddCall' =
         IF infoCall.result = "metadata"
         THEN [dataAddCall EXCEPT
                 !.pc = "done",
                 !.repo = RepoWith(@, DataEntry(dataAddCall.id, "pmtiles",
                                                infoCall.metadata[1]))]
         ELSE [dataAddCall EXCEPT
                 !.pc = "returned",
                 !.error = infoCall.message,
                 !.repo = RepoAfterMetadataFailure(@, dataAddCall.id)]
    /\ UNCHANGED <<besideRegVars, clientVars, addCall, markersCall>>

\* After `await openMbTilesWrapper(..)` and `await mbw.getInfo()`.
DataAddMBTilesSettled(ok) ==
    /\ dataAddCall.pc = "getInfo"
    /\ dataAddCall' =
         IF ok
         THEN [dataAddCall EXCEPT
                 !.pc = "done",
                 !.repo = RepoWith(@, DataEntry(dataAddCall.id, "mbtiles",
                                                MBTilesInfo))]
         ELSE [dataAddCall EXCEPT !.pc = "rejected", !.error = <<"mbtiles">>]
    /\ UNCHANGED <<besideRegVars, clientVars, addCall, markersCall>>

\* The next data source of the configuration is added.
DataAddNext ==
    /\ dataAddCall.pc \in {"done", "returned", "rejected"}
    /\ dataAddCall' = [NoDataAddCall EXCEPT !.repo = dataAddCall.repo]
    /\ infoCall' = NoCall
    /\ UNCHANGED <<besideRegVars, tileCall, addCall, markersCall>>

\* The headers of the archives registered.
DataAddHeaders ==
    {h \in Headers : /\ h.minLon = Number(-10000000)
                     /\ h.centerZoom = Number(1)
                     /\ h.maxZoom \in {1, MaxZoom}}

\* What an attempt of the metadata fetch meets.
DataAddOutcomes ==
    {o \in InfoOutcomes :
        o.message \in {<<>>, <<"429">>, <<"Bad response code:", "404">>}}

InitDataAdd ==
    /\ PoolAtRest
    /\ ClientAtRest
    /\ ResolverAtRest
    /\ S3AtRest
    /\ CallsAtRest

NextDataAdd ==
    \/ \E id \in DataAddIds, params \in DataAddParams, statOk \in BOOLEAN :
            DataAdd(id, params, statOk)
    \/ \E o \in DataAddOutcomes, header \in DataAddHeaders : InfoAttempt(o, header)
    \/ InfoWakeup
    \/ DataAddInfoSettled
    \/ \E ok \in BOOLEAN : DataAddMBTilesSettled(ok)
    \/ DataAddNext

SpecDataAdd == InitDataAdd /\ [][NextDataAdd]_vars

\* ------------------------------------------ extractMarkersFromQuery

\* Texts are sequences of characters. Lower case of the letters used.
LowerChar(ch) ==
    CASE ch = "H" -> "h"
      [] ch = "T" -> "t"
      [] ch = "P" -> "p"
      [] ch = "S" -> "s"
      [] ch = "D" -> "d"
      [] ch = "A" -> "a"
      [] OTHER -> ch

LowerText(text) == [i \in 1 .. Len(text) |-> LowerChar(text[i])]

StartsWith(text, prefix) ==
    Len(prefix) <= Len(text) /\ SubSeq(text, 1, Len(prefix)) = prefix

\* httpTester = /^https?:\/\//i
httpTester(text) ==
    \/ StartsWith(LowerText(text), <<"h", "t", "t", "p", ":", "/", "/">>)
    \/ StartsWith(LowerText(text), <<"h", "t", "t", "p", "s", ":", "/", "/">>)

isValidHttpUrl(text) == httpTester(text)

\* iconURI.startsWith('data:')
IsDataURL(iconURI) == StartsWith(iconURI, <<"d", "a", "t", "a", ":">>)

\* sanitize-filename: the characters / ? < > \ : * | " are removed, and a
\* name made of dots only becomes empty.
IllegalChars == {"/", "?", "<", ">", "\\", ":", "*", "|", "\""}

LegalChar(ch) == ch \notin IllegalChars

sanitize(text) ==
    LET kept == SelectSeq(text, LegalChar)
    IN IF \A i \in 1 .. Len(kept) : kept[i] = "." THEN <<>> ELSE kept

\* config.allowRemoteMarkerIcons === true,
\* config.allowInlineMarkerImages === true
BooleanTrue == [type |-> "boolean", text |-> "true"]

ExactlyTrue_Truthy(flag) ==
    flag \notin {[type |-> "boolean", text |-> "false"],
                 [type |-> "undefined", text |-> ""]}

ExactlyTrue(flag) == flag = BooleanTrue

\* path.resolve(options.paths.icons, iconURI) of a sanitized name
ResolvedIcon(config, iconURI) == config.icons \o <<"/">> \o iconURI

parseCoordinatePair(coordinates, query) ==
    IF isNaNFloat(coordinates[1]) \/ isNaNFloat(coordinates[2]) THEN Absent
    ELSE IF query.latlng
    THEN Given(<<parseFloat(coordinates[2]), parseFloat(coordinates[1])>>)
    ELSE Given(<<parseFloat(coordinates[1]), parseFloat(coordinates[2])>>)

\* The transformer of the model is the identity or throws.
parseCoordinates(coordinatePair, query) ==
    LET parsedCoordinates == parseCoordinatePair(coordinatePair, query)
    IN IF parsedCoordinates = Absent THEN Absent
       ELSE IF query.transformerThrows THEN Absent
       ELSE parsedCoordinates

\* One iteration of the loop: <<marker>> when the provided marker is pushed,
\* <<>> when it is skipped. A provided marker is its parts split at '|':
\* location (split at ','), icon when there is a second part, options.
MarkerOf(providedMarker, query, config) ==
    IF providedMarker.type # "string" THEN <<>>
    ELSE IF providedMarker.icon = Absent THEN <<>>
    ELSE IF Len(providedMarker.location) # 2 THEN <<>>
    ELSE LET iconURI == providedMarker.icon[1]
             isRemoteURL == isValidHttpUrl(iconURI)
             isDataURL == IsDataURL(iconURI)
             local == ~(isRemoteURL \/ isDataURL)
             location == parseCoordinates(providedMarker.location, query)
         IN IF local /\ sanitize(iconURI) \notin config.availableIcons
            THEN <<>>
            ELSE IF ~local /\ isRemoteURL
                    /\ ~ExactlyTrue(config.allowRemoteMarkerIcons)
            THEN <<>>
            ELSE IF ~local /\ ~isRemoteURL /\ isDataURL
                    /\ ~ExactlyTrue(config.allowInlineMarkerImages)
            THEN <<>>
            ELSE IF location = Absent THEN <<>>
            ELSE <<parseMarkerOptions(
                     providedMarker.options,
                     [location |-> location[1],
                      icon |-> IF local
                               THEN ResolvedIcon(config, sanitize(iconURI))
                               ELSE iconURI,
                      scale |-> Absent, offsetX |-> Absent,
                      offsetY |-> Absent])>>

RECURSIVE MarkersFrom(_, _, _)
MarkersFrom(providedMarkers, query, config) ==
    IF providedMarkers = <<>> THEN <<>>
    ELSE MarkerOf(Head(providedMarkers), query, config)
         \o MarkersFrom(Tail(providedMarkers), query, config)

\* query.marker is absent (or the empty string), one string, or a list.
extractMarkersFromQuery(query, config) ==
    IF query.marker = Absent THEN <<>>
    ELSE MarkersFrom(query.marker[1], query, config)

ExtractMarkers(query, config) ==
    /\ markersCall.pc = "none"
    /\ markersCall' = [pc |-> "done",
                       input |-> <<[query |-> query, options |-> config]>>,
                       markers |-> extractMarkersFromQuery(query, config)]
    /\ UNCHANGED <<besideRegVars, clientVars, addCall, dataAddCall>>

\* Icons tried: remote in both letter cases, inline, an upper-case DATA:
\* text (not a data URL for startsWith), a listed name, a name that is
\* listed once sanitized, a traversal, and an unlisted name.
IconTexts ==
    {<<"h", "t", "t", "p", ":", "/", "/", "x">>,
     <<"H", "T", "T", "P", "S", ":", "/", "/", "x">>,
     <<"h", "t", "t", "p", ":", "x">>,
     <<"d", "a", "t", "a", ":", "x">>,
     <<"D", "A", "T", "A", ":", "x">>,
     <<"p">>,
     <<"p", ":">>,
     <<".", ".", "/", "p">>,
     <<"s">>}

AvailableIcons == {<<"p">>, <<"h", "t", "t", "p", "x">>}

MarkerLocations == {<<"10", "20">>, <<"abc", "20">>, <<"10">>,
                    <<"10", "20", "2">>}

ProvidedMarkers ==
    [type : {"string"}, location : MarkerLocations,
     icon : {Given(i) : i \in IconTexts},
     options : {<<>>, <<<<<<"scale">>, <<"2">>>>>>}]
    \cup {[type |-> "string", location |-> <<"10", "20">>, icon |-> Absent,
           options |-> <<>>],
          [type |-> "object", location |-> <<"10", "20">>,
           icon |-> Given(<<"p">>), options |-> <<>>]}

\* The markers a second marker is listed with.
FirstMarkers ==
    {m \in ProvidedMarkers :
        /\ m.options = <<>>
        /\ m.location \in {<<"10", "20">>, <<"abc", "20">>}
        /\ m.icon \in {Absent, Given(<<"p">>), Given(<<"s">>),
                       Given(<<"d", "a", "t", "a", ":", "x">>),
                       Given(<<"h", "t", "t", "p", ":", "/", "/", "x">>)}}

MarkerLists ==
    {<<>>} \cup {<<m>> : m \in ProvidedMarkers}
    \cup {<<f, m>> : f \in FirstMarkers, m \in FirstMarkers}

MarkerQueries ==
    [marker : {Absent} \cup {Given(l) : l \in MarkerLists},
     latlng : BOOLEAN, transformerThrows : {FALSE}]
    \cup [marker : {Given(<<m>>) : m \in FirstMarkers},
          latlng : {FALSE}, transformerThrows : {TRUE}]

FlagValues == {BooleanTrue, [type |-> "boolean", text |-> "false"],
               [type |-> "string", text |-> "true"],
               [type |-> "undefined", text |-> ""]}

MarkerConfigs ==
    [allowRemoteMarkerIcons : FlagValues,
     allowInlineMarkerImages : FlagValues,
     availableIcons : {AvailableIcons}, icons : {<<"i">>}]

InitMarkers ==
    /\ S3AtRest
    /\ ClientAtRest
    /\ PoolAtRest
    /\ ResolverAtRest
    /\ CallsAtRest

NextMarkers ==
    \E query \in MarkerQueries, config \in MarkerConfigs :
        ExtractMarkers(query, config)

SpecMarkers == InitMarkers /\ [][NextMarkers]_vars

\* ------------------------------------------------------- openPMtiles

\* s3Tester = /^s3:\/\//i
s3Tester(text) == StartsWith(LowerText(text), <<"s", "3", ":", "/", "/">>)

\* s3HttpTester = /^s3\+https?:\/\//i
s3HttpTester(text) ==
    \/ StartsWith(LowerText(text),
                  <<"s", "3", "+", "h", "t", "t", "p", ":", "/", "/">>)
    \/ StartsWith(LowerText(text),
                  <<"s", "3", "+", "h", "t", "t", "p", "s", ":", "/", "/">>)

isS3Url(text) == s3Tester(text) \/ s3HttpTester(text)

\* The three patterns of parseS3Url begin with ^s3:\/\/ and have no flag.
PatternPrefix == <<"s", "3", ":", "/", "/">>

\* parseS3Url(url, s3UrlFormat) for any url: the patterns are tried on the
\* text after s3:// and match nothing when the url does not begin with it.
parseS3Location(location, query, s3UrlFormat, env) ==
    IF StartsWith(location, PatternPrefix)
    THEN parseS3Url(SubSeq(location, Len(PatternPrefix) + 1, Len(location)),
                    query, s3UrlFormat, env)
    ELSE Invalid

\* openPMtiles(filePath, s3Profile, requestPayer, s3Region, s3UrlFormat):
\* an S3Source, a FetchSource or a file source. filePath is scheme \o body.
OpenPMtiles(scheme, body, in, fileExists) ==
    /\ s3Source.pc = "none"
    /\ LET filePath == scheme \o body
           parsed == parseS3Location(filePath, in.query, in.s3UrlFormat,
                                     in.env)
           call == [NoS3Source EXCEPT !.scheme = scheme, !.body = body,
                                      !.input = <<in>>]
       IN s3Source' =
            IF isS3Url(filePath)
            THEN IF ~parsed.ok
                 THEN [call EXCEPT !.pc = "threw",
                                   !.error = <<"Invalid S3 URL format: ",
                                               filePath>>]
                 ELSE [call EXCEPT
                         !.pc = "done", !.parsed = <<parsed>>,
                         !.source =
                            <<[bucket |-> parsed.bucket, key |-> parsed.key,
                               endpoint |-> parsed.endpoint,
                               profile |-> Or(in.s3Profile, parsed.profile),
                               requestPayer |->
                                   RequestPayerOf(in.configRequestPayer,
                                                  parsed),
                               region |-> Or(in.configRegion,
                                             parsed.region)]>>]
            ELSE IF isValidHttpUrl(filePath)
            THEN [call EXCEPT !.pc = "fetch"]
            ELSE IF fileExists THEN [call EXCEPT !.pc = "file"]
            ELSE [call EXCEPT !.pc = "threw", !.error = <<"ENOENT">>]
    /\ UNCHANGED nonS3Vars

\* The schemes tried: the three object-store schemes in lower and upper
\* case, a scheme with one slash, http and none (a local path).
Schemes ==
    {<<"s", "3", ":", "/", "/">>,
     <<"S", "3", ":", "/", "/">>,
     <<"s", "3", "+", "h", "t", "t", "p", ":", "/", "/">>,
     <<"s", "3", "+", "h", "t", "t", "p", "s", ":", "/", "/">>,
     <<"S", "3", "+", "H", "T", "T", "P", "S", ":", "/", "/">>,
     <<"s", "3", ":", "/">>,
     <<"h", "t", "t", "p", ":", "/", "/">>,
     <<>>}

\* Length of the longest text after the scheme tried by openPMtiles.
MaxPathLen == 5

InitOpen ==
    /\ S3AtRest
    /\ CallsAtRest
    /\ ClientAtRest
    /\ PoolAtRest
    /\ ResolverAtRest

NextOpen ==
    \E scheme \in Schemes, body \in StringsUpTo(MaxPathLen), f \in Formats,
       fileExists \in BOOLEAN :
        OpenPMtiles(scheme, body, [NoConfig EXCEPT !.s3UrlFormat = f],
                    fileExists)

SpecOpen == InitOpen /\ [][NextOpen]_vars

\* ------------------------------------------------------------- claims
InPool(h) ==
    \E k \in PoolKeys :
        \/ h \in pools[k].busy
        \/ \E i \in 1 .. Len(pools[k].available) : pools[k].available[i] = h

Idle(h) ==
    \E k \in PoolKeys :
        \E i \in 1 .. Len(pools[k].available) : pools[k].available[i] = h

TimeoutResponse == <<Response(503, "Renderer timeout")>>

\* C1: when the 30 s timeout fires on an outstanding render, the handle is
\* removed from its pool (once) and the request gets exactly the 503
\* 'Renderer timeout' response; a handle removed by a timeout is never in a
\* pool again; a completion of the render arriving after the timeout changes
\* neither the responses, nor any pool, nor the release/remove counts.
C1_TimeoutEvictsAndLateCompletionDiscarded ==
    [][\A r \in Reqs :
        /\ (timer[r] = "armed" /\ timer'[r] = "fired") =>
              /\ ~InPool(renderer[r])'
              /\ renderer[r] \in destroyed'
              /\ removed'[r] = removed[r] + 1
              /\ released'[r] = released[r]
              /\ res'[r] = TimeoutResponse
        /\ (pc[r] = "timedout" /\ pc'[r] # "timedout") =>
              /\ res'[r] = res[r]
              /\ pools' = pools
              /\ released'[r] = released[r]
              /\ removed'[r] = removed[r]
              /\ destroyed' = destroyed
        /\ \A h \in timedOut' : ~InPool(h)'
      ]_vars

\* A render timed out, and its late completion has arrived.
C1_Witness ==
    \E r \in Reqs : timer[r] = "fired" /\ pc[r] = "done"

\* C2: the handles of a pool (checked out plus idle) never outnumber the
\* maximum serve_rendered.add configured for it.
C2_PoolNeverExceedsMax ==
    \A k \in PoolKeys : PoolSize(pools[k]) <= maxPoolSize(options)

\* A pool is full again after one of its handles was removed.
C2_Witness ==
    \E k \in PoolKeys :
        /\ PoolSize(pools[k]) = maxPoolSize(options)
        /\ \E r \in Reqs : removed[r] = 1 /\ PoolOf(mode[r]) = k

CheckoutOver(r) == pc[r] \in {"timedout", "encoding", "done"}

\* C3: a handle handed to an acquire callback is checked out (busy, not
\* destroyed, held by that request alone, its timeout armed) while the
\* request renders; once the checkout is over the request has made exactly
\* one of release / removeBadObject, exactly once; before the checkout none;
\* every busy handle belongs to a rendering request (no leak).
C3_CheckoutEndsExactlyOnce ==
    /\ \A r \in Reqs :
        /\ released[r] + removed[r] <= 1
        /\ pc[r] \in {"idle", "acquiring"} =>
              renderer[r] = NoRenderer /\ released[r] + removed[r] = 0
        /\ pc[r] = "rendering" =>
              /\ released[r] + removed[r] = 0
              /\ renderer[r] \in pools[PoolOf(mode[r])].busy
              /\ renderer[r] \notin destroyed
              /\ timer[r] = "armed"
        /\ (CheckoutOver(r) /\ renderer[r] # NoRenderer) =>
              /\ released[r] + removed[r] = 1
              /\ timer[r] # "armed"
    /\ \A r1, r2 \in Reqs :
        (r1 # r2 /\ pc[r1] = "rendering" /\ pc[r2] = "rendering") =>
            renderer[r1] # renderer[r2]
    /\ \A k \in PoolKeys : \A h \in pools[k].busy :
        \E r \in Reqs : pc[r] = "rendering" /\ renderer[r] = h
                        /\ PoolOf(mode[r]) = k

\* Checkouts have ended in each way: release, and removal after a failed
\* sanity check, a render error or throw, and a timeout.
C3_Witness ==
    /\ \E r \in Reqs : CheckoutOver(r) /\ released[r] = 1
    /\ \E r \in Reqs : CheckoutOver(r) /\ removed[r] = 1 /\ timer[r] = "fired"
    /\ \E r \in Reqs : CheckoutOver(r) /\ removed[r] = 1 /\ timer[r] = "unset"

\* C7: a render completing successfully before the timeout releases the
\* handle, which is then idle in its pool; a render completing with an error
\* before the timeout removes the handle (destroyed, in no pool, not
\* released) and the request gets a 500 response; a destroyed handle is
\* never in a pool again.
C7_SuccessReleasesErrorEvicts ==
    [][\A r \in Reqs :
        /\ (pc[r] = "rendering" /\ pc'[r] = "encoding") =>
              /\ Idle(renderer[r])'
              /\ renderer[r] \notin destroyed'
              /\ released'[r] = released[r] + 1
              /\ removed'[r] = removed[r]
              /\ res'[r] = <<>>
        /\ (pc[r] = "rendering" /\ pc'[r] = "done") =>
              /\ ~InPool(renderer[r])'
              /\ renderer[r] \in destroyed'
              /\ removed'[r] = removed[r] + 1
              /\ released'[r] = released[r]
              /\ Len(res'[r]) = 1 /\ res'[r][1].status = 500
        /\ \A h \in destroyed' : ~InPool(h)'
      ]_vars

\* A released handle was handed to a later acquire, and another render
\* ended with an error.
C7_Witness ==
    /\ \E r1, r2 \in Reqs :
        r1 # r2 /\ released[r1] = 1 /\ renderer[r2] = renderer[r1]
    /\ \E r \in Reqs : res[r] = <<Response(500, "Render error")>>

\* C8: no acquire callback is ever given a handle that a timeout evicted: the
\* handle it gets was idle in the pool or is newly created; right after a
\* timeout eviction the pool is below its max, so a waiting acquire can be
\* served with a new handle; and a pool with a waiting acquire can always
\* serve it or has a render in progress whose timeout is armed.
C8_EvictedHandleNeverReused ==
    [][/\ \A r \in Reqs :
            /\ renderer'[r] # renderer[r] =>
                  /\ renderer'[r] \notin timedOut
                  /\ renderer'[r] \notin timedOut'
                  /\ \/ Idle(renderer'[r])
                     \/ renderer'[r] = nextHandle /\ ~InPool(renderer'[r])
            /\ (timer[r] = "armed" /\ timer'[r] = "fired") =>
                  PoolSize(pools'[PoolOf(mode[r])]) < pools'[PoolOf(mode[r])].max
       /\ \A k \in PoolKeys :
            pools'[k].queue # <<>> =>
                \/ CanDispense(pools'[k])
                \/ \E r \in Reqs : /\ pc'[r] = "rendering"
                                   /\ timer'[r] = "armed"
                                   /\ renderer'[r] \in pools'[k].busy
      ]_vars

\* After a timeout evicted a handle of a pool, a later acquire on that pool
\* is rendering with a handle created after it.
C8_Witness ==
    \E r1, r2 \in Reqs :
        /\ timer[r1] = "fired"
        /\ PoolOf(mode[r1]) = PoolOf(mode[r2])
        /\ pc[r2] = "rendering"
        /\ renderer[r2] > renderer[r1]
        /\ r2 > r1

\* An attempt that failed with a rate-limit (429) failure.
RateLimited(o) == IsError(o) /\ includes(o.message, "429")

Last(seq) == seq[Len(seq)]

\* C4 as claimed: with the default 3 attempts getPMtilesTile queries the tile
\* 3 times when every attempt is rate-limited, once when the first failure
\* is not a rate-limit failure, and no attempt follows a failure that is not
\* a rate-limit failure.
C4_AsClaimed ==
    (tileCall.pc = "done" /\ tileCall.maxRetries = DefaultTileRetries) =>
        LET o == tileCall.outcomes
        IN /\ (\A i \in 1 .. Len(o) : RateLimited(o[i])) => tileCall.queries = 3
           /\ (IsError(o[1]) /\ ~RateLimited(o[1])) => tileCall.queries = 1
           /\ \A i \in 1 .. Len(o) - 1 : IsError(o[i]) => RateLimited(o[i])

C5_InfoRetriesOnlyRateLimits ==
    LET o == infoCall.outcomes
    IN /\ \A i \in 1 .. Len(o) - 1 : RateLimited(o[i])
       /\ (infoCall.pc = "done" /\ o # <<>>) =>
            /\ (IsError(Last(o)) /\ ~RateLimited(Last(o))) =>
                  /\ infoCall.result = "threw"
                  /\ infoCall.message =
                        InfoErrorMessage(Last(o).message, infoCall.inputFile)
            /\ (IsError(o[1]) /\ ~RateLimited(o[1])) => infoCall.queries = 1
            /\ (\A i \in 1 .. Len(o) : RateLimited(o[i])) =>
                  /\ infoCall.queries = infoCall.maxRetries
                  /\ infoCall.maxRetries = DefaultInfoRetries =>
                        infoCall.queries = 3
                  /\ infoCall.result = "threw"
                  /\ infoCall.message =
                        Last(o).message \o <<" for file: ", infoCall.inputFile>>
                  /\ Len(infoCall.delays) = infoCall.maxRetries - 1

\* The default 3 attempts were all rate-limited and the call has thrown.
C5_Witness ==
    /\ infoCall.pc = "done"
    /\ infoCall.maxRetries = DefaultInfoRetries
    /\ infoCall.queries = 3
    /\ \A i \in 1 .. 3 : RateLimited(infoCall.outcomes[i])
    /\ infoCall.result = "threw"

IsArchive(c) == calls[c].req.protocol \in {"mbtiles", "pmtiles"}

IsHttp(c) == calls[c].req.protocol \in {"http", "https"}

\* The empty response of a format and a background color.
Synthesized(format, color) ==
    IF format = "" \/ format = "pbf" THEN EmptyBuffer
    ELSE Placeholder(CacheKey(format, color))

\* C9 (as claimed): an archive-tile request whose tile fetch yields no tile
\* never hands the renderer an error; once it has answered, a sparse source
\* got the absent signal and any other source got the empty response of its
\* format and color.
C9_AsClaimed ==
    \A c \in Calls :
        (IsArchive(c) /\ calls[c].fetchTile = "null") =>
            LET info == sourceInfo(calls[c].req.target)
            IN /\ \A i \in 1 .. Len(calls[c].callbacks) :
                      calls[c].callbacks[i].type # "error"
               /\ calls[c].pc = "done" =>
                      calls[c].callbacks =
                          IF info.sparse
                          THEN <<CbAbsent>>
                          ELSE <<CbResponse(Synthesized(info.format, info.color))>>

\* C10: a resolution of an http(s) URL that starts while the response of an
\* earlier successful resolution of that URL is in the cache issues no fetch
\* and hands the renderer the data, modified, expires and etag the earlier
\* one got; when the two are the only resolutions of the URL, the URL was
\* fetched exactly once.
C10_SecondResolutionServedFromCache ==
    \A c1, c2 \in Calls :
        (IsHttp(c2) /\ calls[c2].prior = c1) =>
            /\ calls[c1].req.target = calls[c2].req.target
            /\ calls[c1].pc = "done"
            /\ calls[c1].callbacks = <<CbResponse(calls[c1].response)>>
            /\ ~calls[c2].fetched
            /\ calls[c2].callbacks = calls[c1].callbacks
            /\ ({c \in Calls : calls[c].req.target = calls[c2].req.target}
                    = {c1, c2}
                => fetchCount[calls[c2].req.target] = 1)

C10_Witness ==
    \E c1, c2 \in Calls :
        /\ IsHttp(c2)
        /\ calls[c2].prior = c1
        /\ calls[c2].pc = "done"
        /\ calls[c1].fetched
        /\ calls[c2].callbacks[1].value.etag = "e1"
        /\ calls[c2].callbacks[1].value.modified = Date("m1")

Removed == ItemId \notin repo

\* C13: remove and clear close every tile-mode and static-mode pool of the
\* item exactly once and delete the repository entry; from then on no pool of
\* the item holds a Ready handle or hands a handle to an acquire, every
\* handle ever created is destroyed or still checked out by a rendering
\* request whose timeout is armed, and a handle released after the removal
\* is destroyed and not kept in the pool.
C13_RemoveClosesPoolsOnce ==
    [][/\ \A k \in PoolKeys :
            /\ closeCalls'[k] = (IF Removed' THEN 1 ELSE 0)
            /\ pools'[k].closing = Removed'
            /\ Removed' => pools'[k].available = <<>>
       /\ Removed' =>
            \A h \in 1 .. (nextHandle' - 1) :
                \/ h \in destroyed'
                \/ \E r \in Reqs : /\ pc'[r] = "rendering"
                                   /\ renderer'[r] = h
                                   /\ timer'[r] = "armed"
       /\ Removed =>
            \A r \in Reqs :
                /\ renderer'[r] = renderer[r]
                /\ released'[r] # released[r] =>
                      /\ renderer[r] \in destroyed'
                      /\ ~InPool(renderer[r])'
      ]_vars

\* The item was removed while a render was in progress, and the handle was
\* destroyed by the release that followed.
C13_Witness ==
    /\ Removed
    /\ \E r \in Reqs :
        /\ released[r] = 1
        /\ removed[r] = 0
        /\ renderer[r] \in destroyed

IsPrefix(a, b) == Len(a) <= Len(b) /\ SubSeq(b, 1, Len(a)) = a

Before(seq, a, b) ==
    \A i, j \in 1 .. Len(seq) : (seq[i] = a /\ seq[j] = b) => i < j

Has(seq, a) == \E i \in 1 .. Len(seq) : seq[i] = a

\* The steps of a request that the order of C14 is about.
CoreSteps(r) ==
    SelectSeq(steps[r],
              LAMBDA x : x \in {"acquire", "configure", "render",
                                "composite", "release"})

\* C14 (as claimed): the steps of a request occur in the order acquire,
\* configure, render, composite, release; the handle is released only after
\* the overlay has been composited.
C14_AsClaimed ==
    \A r \in Reqs :
        IsPrefix(CoreSteps(r),
                 <<"acquire", "configure", "render", "composite", "release">>)

\* C14 (amended): the steps of a request occur in the order acquire,
\* configure, render, release, composite: the handle is released as soon as
\* the render has completed successfully, before the layers are composited;
\* the release step is the one pool.release call of the request.
C14_ReleaseBeforeComposite ==
    \A r \in Reqs :
        /\ IsPrefix(CoreSteps(r),
                    <<"acquire", "configure", "render", "release", "composite">>)
        /\ Has(steps[r], "release") <=> released[r] = 1
        /\ Has(steps[r], "composite") => Has(steps[r], "release")

\* A static request with an overlay was answered with the image.
C14_Witness ==
    \E r \in Reqs :
        /\ OverlayOf(r)
        /\ Has(steps[r], "composite")
        /\ res[r] = <<Response(200, "image")>>

Succeeded(r) == Has(steps[r], "toBuffer")

\* C15: the layers composited onto the render are the overlay when the
\* request has one, then the watermark when configured, then the attribution
\* when the mode is static and it is configured, in this order; they are
\* composited after the render completed and before the image is encoded; a
\* request that did not render successfully composites nothing; a tile
\* request never gets an attribution layer.
C15_CompositeOrder ==
    \A r \in Reqs :
        /\ composites[r] =
              SelectSeq(<<"overlay", "watermark", "attribution">>,
                        LAMBDA x :
                            /\ Succeeded(r)
                            /\ \/ /\ x = "overlay"
                                  /\ mode[r] = "static"
                                  /\ overlay[r]
                               \/ x = "watermark" /\ options.watermark
                               \/ /\ x = "attribution"
                                  /\ mode[r] = "static"
                                  /\ options.staticAttributionText)
        /\ Has(steps[r], "composite") <=> composites[r] # <<>>
        /\ Before(steps[r], "rendered", "composite")
        /\ Before(steps[r], "composite", "toBuffer")
        /\ Before(steps[r], "composite", "encoded")
        /\ mode[r] = "tile" => ~Has(composites[r], "attribution")

\* One static request got all three layers and a tile request, with the
\* attribution configured, only the watermark.
C15_Witness ==
    /\ options.staticAttributionText
    /\ \E r \in Reqs :
        /\ mode[r] = "static"
        /\ composites[r] = <<"overlay", "watermark", "attribution">>
        /\ Has(steps[r], "encoded")
    /\ \E r \in Reqs :
        /\ mode[r] = "tile"
        /\ overlay[r]
        /\ composites[r] = <<"watermark">>
        /\ Has(steps[r], "encoded")

\* The empty response the catch block of the http branch asks for.
HttpEmpty(c) ==
    CbResponse(Synthesized(extensionToFormat(extname(calls[c].req.target)), ""))

IsFile(c) == calls[c].req.protocol = "file"

InvalidFile(f) ==
    \/ ~FileStats(f).exists
    \/ ~FileStats(f).isFile
    \/ FileStats(f).size = 0

\* C12 (as claimed): a file reference whose path does not exist, is not a
\* regular file or is empty is never read, and once the resolver is through
\* with it the callback has received an error.
C12_AsClaimed ==
    \A c \in Calls :
        (IsFile(c) /\ InvalidFile(calls[c].req.target)) =>
            /\ ~calls[c].read
            /\ calls[c].pc \in {"done", "rejected"} =>
                  calls[c].callbacks = <<CbError>>

InfoReturned == infoCall.pc = "done" /\ infoCall.result = "metadata"

HeaderBounds(h) == <<h.minLon, h.minLat, h.maxLon, h.maxLat>>

AllZero(b) == \A i \in 1 .. 4 : b[i] = Number(0)

AllNumbers(b) == \A i \in 1 .. 4 : b[i].t = "number"

\* C18: the bounds getPMtilesInfo returns are the full Web-Mercator extent
\* [-180, -85.0511288, 180, 85.0511288] when the four bound fields of the
\* header are all zero or one of them is not a number, and the header's
\* [minLon, minLat, maxLon, maxLat] otherwise; all-zero bounds are never
\* returned.
C18_BoundsDefaultToFullExtent ==
    InfoReturned =>
        LET h == infoCall.header[1]
            bounds == infoCall.metadata[1].bounds
        IN /\ (AllZero(HeaderBounds(h)) \/ ~AllNumbers(HeaderBounds(h))) =>
                  bounds = <<Number(-1800000000), Number(-850511288),
                             Number(1800000000), Number(850511288)>>
           /\ (~AllZero(HeaderBounds(h)) /\ AllNumbers(HeaderBounds(h))) =>
                  bounds = HeaderBounds(h)
           /\ ~AllZero(bounds)

\* A header with all-zero bounds was answered with the full extent.
C18_Witness ==
    /\ InfoReturned
    /\ AllZero(HeaderBounds(infoCall.header[1]))
    /\ infoCall.metadata[1].bounds = FullExtent

\* C19 (as claimed): the center zoom returned is the header's center zoom
\* whenever that is a number, 0 included, and maxZoom / 2 exactly when the
\* header has no center zoom.
C19_AsClaimed ==
    InfoReturned =>
        LET h == infoCall.header[1]
            center == infoCall.metadata[1].center
        IN /\ center[1] = h.centerLon
           /\ center[2] = h.centerLat
           /\ center[3] = IF h.centerZoom.t = "number"
                          THEN Number(2 * h.centerZoom.v)
                          ELSE Number(h.maxZoom)

\* C19 (amended): the center returned is (centerLon, centerLat, centerZoom)
\* when the header's center zoom is a number other than 0, and (centerLon,
\* centerLat, maxZoom / 2) when it is 0 or missing: a center zoom of 0 is
\* taken as not supplied. Zooms are compared in half levels.
C19_CenterZoomDefault ==
    InfoReturned =>
        LET h == infoCall.header[1]
            center == infoCall.metadata[1].center
        IN /\ center[1] = h.centerLon
           /\ center[2] = h.centerLat
           /\ center[3] = IF h.centerZoom.t = "number" /\ h.centerZoom.v # 0
                          THEN Number(2 * h.centerZoom.v)
                          ELSE Number(h.maxZoom)

\* A header with center zoom 0 and the largest max zoom was answered with
\* half the max zoom.
C19_Witness ==
    /\ InfoReturned
    /\ infoCall.header[1].centerZoom = Number(0)
    /\ infoCall.header[1].maxZoom = MaxZoom
    /\ infoCall.metadata[1].center[3] = Number(MaxZoom)

\* An S3Source was constructed, or the constructor threw, with
\* auto-detection of the url format.
AutoDetected ==
    /\ s3Source.pc # "none"
    /\ s3Source.built # <<>>
    /\ s3Source.input[1].s3UrlFormat = Undef
    /\ s3Source.input[1].query["s3UrlFormat"] = NullRef

NoEndpoint == <<"null">>

\* The url was put together from the parts e (NoEndpoint for none), b and k
\* and the source has exactly these parts.
RoundTrip ==
    /\ s3Source.pc = "done"
    /\ s3Source.source[1].bucket = s3Source.built[2]
    /\ s3Source.source[1].key = s3Source.built[3]
    /\ s3Source.source[1].endpoint =
          IF s3Source.built[1] = NoEndpoint THEN NoEndpoint
          ELSE <<"https://">> \o s3Source.built[1]

\* C16 (as claimed): with auto-detection, s3://bucket/key gives that bucket
\* and key and no endpoint, and s3://endpoint/bucket/key gives that endpoint
\* (as an https url), bucket and key, for every valid bucket, key and dotted
\* endpoint, a bucket with a dot and a key with a slash included.
C16_AsClaimed == AutoDetected => RoundTrip

\* s3://bucket/key where the bucket has a dot and the key reads p/q.
ReadsAsEndpoint(i) ==
    LET b == s3Source.built[2]
        k == s3Source.built[3]
    IN /\ s3Source.built[1] = NoEndpoint
       /\ \E j \in 1 .. Len(b) - 1 : b[j] = "."
       /\ 1 < i /\ i < Len(k)
       /\ k[i] = "/"
       /\ \A j \in 1 .. i - 1 : k[j] # "/"

\* C16 (amended): with auto-detection, s3://endpoint/bucket/key gives that
\* endpoint (as an https url), bucket and key, and s3://bucket/key gives that
\* bucket and key and no endpoint unless the bucket has a dot and the key
\* reads p/q with p and q not empty and no slash in p: that url is read as
\* endpoint bucket, bucket p and key q.
C16_AutoDetectRoundTrip ==
    AutoDetected =>
        IF \E i \in 1 .. Len(s3Source.built[3]) : ReadsAsEndpoint(i)
        THEN \A i \in 1 .. Len(s3Source.built[3]) :
                ReadsAsEndpoint(i) =>
                    /\ s3Source.pc = "done"
                    /\ s3Source.source[1].endpoint =
                          <<"https://">> \o s3Source.built[2]
                    /\ s3Source.source[1].bucket =
                          SubSeq(s3Source.built[3], 1, i - 1)
                    /\ s3Source.source[1].key =
                          SubSeq(s3Source.built[3], i + 1,
                                 Len(s3Source.built[3]))
        ELSE RoundTrip

\* An endpoint url with a dot in the bucket and a slash in the key was read
\* back exactly.
C16_Witness ==
    /\ AutoDetected
    /\ s3Source.built = <<<<"a", ".", "a">>, <<"a", ".", "a">>, <<"a", "/", "a">>>>
    /\ RoundTrip

\* A value the caller supplied: a non-empty string.
Supplied(x) == x.t = "string" /\ x.v # ""

\* C17: the profile and the region of an S3Source are the configuration
\* value when the caller supplied one, else the value of the URL parameter
\* when it is present, else the default (no profile; the AWS_REGION of the
\* environment, us-east-1 without it); its requestPayer is the configuration
\* value when that is a boolean, false included, else whether the URL
\* parameter is the literal 'true' or '1'.
C17_ConfigOverUrlOverDefault ==
    s3Source.pc = "done" =>
        LET in == s3Source.input[1]
            src == s3Source.source[1]
        IN /\ src.profile =
                  IF Supplied(in.s3Profile) THEN in.s3Profile
                  ELSE IF in.query["profile"] # NullRef THEN in.query["profile"]
                  ELSE NullRef
           /\ src.region =
                  IF Supplied(in.configRegion) THEN in.configRegion
                  ELSE IF in.query["region"] # NullRef THEN in.query["region"]
                  ELSE IF Supplied(in.env) THEN in.env
                  ELSE Str("us-east-1")
           /\ src.requestPayer =
                  IF in.configRequestPayer.t = "boolean"
                  THEN in.configRequestPayer
                  ELSE Bool(in.query["requestPayer"] \in {Str("true"), Str("1")})

\* A configuration requestPayer of false won over a URL requestPayer of
\* true, with a URL region and no configuration region.
C17_Witness ==
    /\ s3Source.pc = "done"
    /\ s3Source.input[1].configRequestPayer = Bool(FALSE)
    /\ s3Source.input[1].query["requestPayer"] = Str("true")
    /\ s3Source.source[1].requestPayer = Bool(FALSE)
    /\ s3Source.input[1].configRegion = Undef
    /\ s3Source.source[1].region = Str("p")

\* The attempts of call c (numbered from 1) that failed with a rate limit.
RateLimitedAttempts(c) ==
    {i \in 1 .. Len(c.outcomes) : RateLimited(c.outcomes[i])}

\* The waits of call c are those the claim gives: one after each
\* rate-limited attempt but the final one, of 2^k seconds after the k-th
\* rate-limited attempt (k = 0, 1, ...), and the attempts are sequential.
BackoffByRateLimitCount(c) ==
    LET waited == {i \in RateLimitedAttempts(c) : i < c.maxRetries}
        k(i) == Cardinality({j \in RateLimitedAttempts(c) : j < i})
    IN /\ c.queries = Len(c.outcomes)
       /\ Len(c.delays) = Cardinality(waited)
       /\ \A i \in waited : c.delays[k(i) + 1] = Pow2(k(i)) * 1000
       /\ \A n \in 1 .. Len(c.delays) - 1 : c.delays[n] < c.delays[n + 1]

\* C20 (as claimed): in getPMtilesInfo and getPMtilesTile the attempts of a
\* call are sequential, the wait after the k-th rate-limited attempt
\* (k = 0, 1, ...) is 2^k seconds, so that the waits strictly increase, and
\* there is no wait after the final attempt or before the first.
C20_AsClaimed ==
    /\ BackoffByRateLimitCount(tileCall)
    /\ BackoffByRateLimitCount(infoCall)

\* The calls a path made on the canvas of the overlay.
PathCalls == {n \in 1 .. Len(overlayCall.canvas) : overlayCall.canvas[n].by = "path"}

\* The path query value the path that made call n was parsed from.
OwnDescriptor(n) ==
    overlayCall.query[1].path[overlayCall.paths[overlayCall.canvas[n].index].from]

\* C21 (as claimed): every path renderOverlay draws is styled with the
\* inline options of the path query value it was parsed from, also when
\* other values gave no coordinates and were dropped: a fill it makes has
\* the inline fill colour of its own value, and without an inline fill of
\* its own (and no global one) it makes no fill.
C21_AsClaimed ==
    \A n \in PathCalls :
        overlayCall.canvas[n].op = "fill" =>
            LET own == getInlineOption(OwnDescriptor(n), "fill")
            IN IF own # Absent THEN overlayCall.canvas[n].style = own[1]
               ELSE overlayCall.query[1].fill # Absent

\* The calls path number k made on the canvas, in order.
CallsOf(k) ==
    SelectSeq(overlayCall.canvas,
              LAMBDA call : call.by = "path" /\ call.index = k)

StrokesOf(k) == SelectSeq(CallsOf(k), LAMBDA call : call.op = "stroke")
FillsOf(k) == SelectSeq(CallsOf(k), LAMBDA call : call.op = "fill")

\* The path query value drawPath was given for path number k.
DescriptorOf(k) == PathQueryAt(overlayCall.query[1], k - 1)

\* Inline value, else global value, else default.
Precedence(name, global, default) ==
    LET inline == getInlineOption(DescriptorOf(1), name)
    IN IF inline # Absent THEN inline[1]
       ELSE IF global # Absent THEN global[1]
       ELSE default

\* A static request with one path of two coordinates whose options are
\* colours and numbers, and what it drew.
StyledRequest ==
    /\ overlayCall.pc # "none"
    /\ overlayCall.query[1] \in StyleQueries

\* C22 (as claimed): for fill, stroke, width, border and borderwidth
\* drawPath uses the inline value of the path's descriptor when present,
\* else the global query value when present, else the default, for every
\* combination of inline and global options.
C22_AsClaimed ==
    StyledRequest =>
        LET q == overlayCall.query[1]
            width ==
                IF getInlineOption(DescriptorOf(1), "width") = Absent
                   /\ q.width = Absent
                THEN DEFAULT_LINE_WIDTH
                ELSE NumberOf(Precedence("width", q.width, "0"))
            border == Precedence("border", q.border, "")
            borderwidth ==
                IF getInlineOption(DescriptorOf(1), "borderwidth") = Absent
                   /\ q.borderwidth = Absent
                THEN width \div 10
                ELSE NumberOf(Precedence("borderwidth", q.borderwidth, "0"))
            strokes == StrokesOf(1)
        IN /\ Len(strokes) = IF border = "" THEN 1 ELSE 2
           /\ strokes[Len(strokes)].style =
                 Precedence("stroke", q.stroke, DEFAULT_STROKE_COLOR)
           /\ strokes[Len(strokes)].width = width
           /\ border # "" =>
                 /\ strokes[1].style = border
                 /\ strokes[1].width = width + 2 * borderwidth
           /\ Len(FillsOf(1)) = 1 =>
                 FillsOf(1)[1].style =
                    Precedence("fill", q.fill, DEFAULT_FILL_COLOR)

\* The positions on the canvas of the calls of path number k with call op.
PositionsOf(k, op) ==
    {n \in PathCalls : overlayCall.canvas[n].index = k
                       /\ overlayCall.canvas[n].op = op}

\* The request ...?path=width:5|fill:red|border:blue|borderwidth:2|1,1|2,2
ScenarioQuery ==
    [NoStyle EXCEPT
        !.isArray = FALSE,
        !.path = <<<<<<"fill", "red">>, <<"width", "5">>, <<"border", "blue">>,
                     <<"borderwidth", "2">>, <<"pair", "ok">>,
                     <<"pair", "ok">>>>>>]

TextsFor(field) ==
    LET list == markerCall.optionsList
        name == IF field = "scale" THEN <<"scale">> ELSE <<"offset">>
        at == IF field = "offsetY" THEN 2 ELSE 1
        given == SelectSeq(list, LAMBDA o : Len(o) = 2 /\ o[1] = name
                                            /\ Len(o[2]) >= at)
    IN [n \in 1 .. Len(given) |-> given[n][2][at]]

\* The value in tenths of an acceptable text for a field, <<>> for others.
Accepted(field, text) ==
    IF text \in {"", "abc"} THEN <<>>
    ELSE LET v == parseFloat(text)
         IN IF field = "scale"
            THEN IF 0 < v /\ v < 100 THEN <<v>> ELSE <<>>
            ELSE IF 0 - 10000 < v /\ v < 10000 THEN <<v>> ELSE <<>>

\* C24: after parseMarkerOptions a scale that is set is within (0, 10) and
\* an offset that is set within (-1000, 1000); each field has the value of
\* the last option that gave an acceptable number for it and is unset when
\* there was none, so an unparsable or out-of-range number leaves the field
\* as it was and never makes it 0. scale:2 and offset:10,-5 give scale 2,
\* offsetX 10 and offsetY -5; scale:20 leaves the scale unset.
C24_MarkerOptionsInRange ==
    markerCall.pc = "done" =>
        LET marker == markerCall.marker[1]
            Last_(field) ==
                LET texts == TextsFor(field)
                    ok == {n \in 1 .. Len(texts) : Accepted(field, texts[n]) # <<>>}
                IN IF ok = {} THEN <<>>
                   ELSE Accepted(field, texts[CHOOSE n \in ok : \A o \in ok : o <= n])
        IN /\ marker.scale = Last_("scale")
           /\ marker.offsetX = Last_("offsetX")
           /\ marker.offsetY = Last_("offsetY")
           /\ marker.scale # <<>> => 0 < marker.scale[1] /\ marker.scale[1] < 100
           /\ marker.offsetX # <<>> => Abs(marker.offsetX[1]) < 10000
           /\ marker.offsetY # <<>> => Abs(marker.offsetY[1]) < 10000
           /\ markerCall.optionsList = <<  <<<<"scale">>, <<"2">>>>,
                                           <<<<"offset">>, <<"10", "-5">>>> >>
                => marker = [scale |-> <<20>>, offsetX |-> <<100>>,
                             offsetY |-> <<0 - 50>>]
           /\ markerCall.optionsList = << <<<<"scale">>, <<"20">>>> >>
                => marker.scale = <<>>

\* scale:2 followed by scale:20 left the scale at 2.
C24_Witness ==
    /\ markerCall.pc = "done"
    /\ markerCall.optionsList = <<  <<<<"scale">>, <<"2">>>>,
                                    <<<<"scale">>, <<"20">>>> >>
    /\ markerCall.marker[1].scale = <<20>>

\* The markers whose image was drawn on the canvas.
DrawnMarkers ==
    {overlayCall.canvas[n].index :
        n \in {i \in 1 .. Len(overlayCall.canvas) :
                    overlayCall.canvas[i].by = "marker"}}

\* C25: renderOverlay returns null exactly when it is given no path and no
\* marker, and otherwise returns a buffer whatever path throws and however
\* the markers settle: it cannot get stuck, at its return every marker has
\* been attempted and has settled, the canvas has the image of exactly the
\* markers that succeeded, and every path other than the one that threw
\* has been drawn.
C25_OverlayAlwaysCompletes ==
    /\ overlayCall.pc = "drawMarkers" =>
          \/ \E m \in 1 .. Len(overlayCall.markers) :
                overlayCall.markers[m] = "pending"
          \/ ENABLED OverlayReturn
    /\ overlayCall.pc = "done" =>
          /\ overlayCall.result \in {"null", "buffer"}
          /\ overlayCall.result = "null" <=>
                (Len(overlayCall.paths) = 0 /\ Len(overlayCall.markers) = 0)
          /\ \A m \in 1 .. Len(overlayCall.markers) :
                /\ overlayCall.markers[m] \in MarkerOutcomes
                /\ m \in DrawnMarkers <=> overlayCall.markers[m] = "drawn"
          /\ \A k \in 1 .. Len(overlayCall.paths) :
                (k # overlayCall.throws /\ Len(overlayCall.paths[k].coords) >= 2)
                    => Len(StrokesOf(k)) >= 1

\* An overlay was returned although the first of two paths threw and one of
\* two markers timed out; the other path and the other marker are on it.
C25_Witness ==
    /\ overlayCall.pc = "done"
    /\ overlayCall.result = "buffer"
    /\ overlayCall.throws = 1
    /\ Len(overlayCall.paths) = 2
    /\ Len(StrokesOf(2)) = 1
    /\ overlayCall.markers = <<"timeout", "drawn">>
    /\ DrawnMarkers = {2}

\* What parseS3Url gave: its result, or that it threw.
Parsed(call) == IF call.pc = "done" THEN call.parsed ELSE <<"threw">>

\* The hint of the caller is neither unset nor one of the two formats.
InvalidHint(hint) == hint \notin {Undef, NullRef, Str("aws"), Str("custom")}

\* parseS3Url returns a bucket and a key that are not empty or throws the
\* error that names the two forms and the s3UrlFormat override.
ResultOrInvalidLocation ==
    /\ s3Source.pc = "done" =>
          /\ s3Source.parsed[1].bucket # <<>>
          /\ s3Source.parsed[1].key # <<>>
    /\ s3Source.pc = "threw" =>
          /\ s3Source.error[1] = "Invalid S3 URL format: "
          /\ \E n \in 1 .. Len(s3Source.error) :
                s3Source.error[n] = "  AWS S3: s3://bucket-name/path/to/file.pmtiles"
          /\ \E n \in 1 .. Len(s3Source.error) :
                s3Source.error[n] =
                    "  Custom endpoint: s3://endpoint.com/bucket/path/to/file.pmtiles"
          /\ \E n \in 1 .. Len(s3Source.error) :
                s3Source.error[n] =
                    "Use s3UrlFormat parameter to override auto-detection if needed."

\* The result of parseS3Url for the same location with the hint unset.
WithHintUnset ==
    LET in == s3Source.input[1]
        parsed == parseS3Url(s3Source.body, in.query, Undef, in.env)
    IN IF parsed.ok THEN <<parsed>> ELSE <<"threw">>

\* C26 (as claimed): for every location and format hint parseS3Url returns
\* a non-empty bucket and key or throws the invalid-location error, and
\* with an invalid hint it gives exactly what it gives with the hint unset.
C26_AsClaimed ==
    s3Source.pc # "none" =>
        /\ ResultOrInvalidLocation
        /\ InvalidHint(s3Source.input[1].s3UrlFormat) =>
              Parsed(s3Source) = WithHintUnset

\* getBytes has returned or thrown.
GetBytesDone == getBytesCall.pc = "done"

\* The error getBytes threw is of class `class` and its message starts with
\* `start`.
ThrewNew(class, start) ==
    LET error == getBytesCall.result[1].error[1]
    IN /\ error.by = "getBytes"
       /\ error.class = class
       /\ start # "" => error.message[1] = start

\* C27: getBytes turns PreconditionFailed into EtagMismatch, NoSuchKey into
\* a not-found error, AccessDenied into an access-denied error and
\* NoSuchBucket into a bucket-not-found error, and throws every other error
\* as the object it caught; on success it returns the data with the ETag of
\* the response; its command has RequestPayer exactly when requestPayer is
\* true; it leaves the source as it was.
C27_GetBytesErrorMapping ==
    /\ getBytesCall.pc # "none" =>
          /\ getBytesCall.source = <<getBytesCall.input[1].source>>
          /\ getBytesCall.command[1].RequestPayer # NotSet
                <=> getBytesCall.input[1].source.requestPayer
          /\ getBytesCall.command[1].IfMatch = getBytesCall.input[1].etag
    /\ GetBytesDone =>
          LET outcome == getBytesCall.outcome[1]
              result == getBytesCall.result[1]
              name == IF outcome.kind = "rejected" THEN outcome.error[1].name
                      ELSE ""
          IN /\ (outcome.kind = "response" /\ outcome.body = "bytes") =>
                    /\ result.kind = "returned"
                    /\ result.data = "bytes"
                    /\ result.etag = outcome.ETag
             /\ outcome.kind = "rejected" => result.kind = "threw"
             /\ name = "PreconditionFailed" => ThrewNew("EtagMismatch", "")
             /\ name = "NoSuchKey" => ThrewNew("Error", "PMTiles file not found: ")
             /\ name = "AccessDenied" => ThrewNew("Error", "Access denied: ")
             /\ name = "NoSuchBucket" => ThrewNew("Error", "Bucket not found: ")
             /\ name \in {"TimeoutError", "AbortError", "InternalError"} =>
                    result.error = outcome.error

\* A missing bucket was reported as such by a source without requester pays.
C27_Witness ==
    /\ GetBytesDone
    /\ getBytesCall.outcome[1].error # NotSet
    /\ getBytesCall.outcome[1].error[1].name = "NoSuchBucket"
    /\ ThrewNew("Error", "Bucket not found: ")
    /\ getBytesCall.command[1].RequestPayer = NotSet

\* A step of the data-tile request or of its tile fetch.
DataStep == dataCall' # dataCall \/ tileCall' # tileCall

\* C28: no step of a data-tile request, whatever its outcome, acquires,
\* releases or evicts a renderer: the pools, the handles and the pool calls
\* of the image requests are as before the step.
C28_DataRequestLeavesPoolsAlone ==
    [][DataStep => UNCHANGED <<pools, nextHandle, hasRender, destroyed,
                              timedOut, renderer, released, removed>>]_vars

\* A data tile was served while a renderer was checked out by an image
\* request and another had been released.
C28_Witness ==
    /\ dataCall.pc = "done"
    /\ dataCall.res[1].status = 200
    /\ pools["renderers"].busy # {}
    /\ \E r \in ImageReqs : released[r] = 1

\* The data-tile request passed validation and its fetch gave no tile.
NoTile ==
    /\ dataCall.pc \in {"done", "rejected"}
    /\ dataCall.fetchTile = "null"

\* C29: a valid data-tile request whose fetch gives no tile is answered
\* with 410 when the source is sparse and with 204 otherwise; a fetch of a
\* PMTiles source that ends with a failure gives no tile, so the request is
\* never rejected by the fetch and never answered with an error status.
C29_NoTileIs410Or204 ==
    /\ NoTile =>
          /\ dataCall.pc = "done"
          /\ dataCall.res[1].status =
                IF dataCall.item[1].sparse THEN 410 ELSE 204
    /\ dataCall.fetchTile # "threw"
    /\ dataCall.pc = "rejected" => dataCall.fetchTile = "tile"
    /\ (dataCall.fetchTile # "pending"
        /\ dataCall.item[1].sourceType = "pmtiles"
        /\ IsError(Last(tileCall.outcomes))) => NoTile

\* A sparse PMTiles source failed three times with a connection error and
\* the request was answered with 410.
C29_Witness ==
    /\ NoTile
    /\ dataCall.item[1].sparse
    /\ dataCall.item[1].sourceType = "pmtiles"
    /\ Len(tileCall.outcomes) = 3
    /\ \A n \in 1 .. 3 : tileCall.outcomes[n].message = <<"ECONNRESET">>
    /\ dataCall.res[1].status = 410

\* Handle h is in no pool after the step.
OutOfPools(h) ==
    \A k \in PoolKeys :
        /\ h \notin pools'[k].busy
        /\ \A i \in 1 .. Len(pools'[k].available) : pools'[k].available[i] # h

\* The acquire callback of request r is given a handle in this step.
Handed(r) == renderer'[r] # renderer[r]

\* C30: the handle an acquire callback is given is checked for its render
\* method before anything is done with it: a handle without one is removed
\* from its pool in that same step, render is not called on it, it is not
\* released then or later, and the request is answered 503 'Renderer
\* invalid'; render is called only on a handle that has the method.
C30_InvalidHandleRemovedNotUsed ==
    [][\A r \in Reqs :
        /\ (Handed(r) /\ ~hasRender'[renderer'[r]]) =>
              /\ OutOfPools(renderer'[r])
              /\ renderer'[r] \in destroyed'
              /\ removed'[r] = removed[r] + 1
              /\ released'[r] = released[r]
              /\ steps'[r] = <<"acquire">>
              /\ pc'[r] = "done"
              /\ res'[r] = <<Response(503, "Renderer invalid")>>
        /\ (Handed(r) /\ hasRender'[renderer'[r]]) =>
              steps'[r] = <<"acquire", "configure", "render">>
        /\ (renderer[r] # NoRenderer /\ ~hasRender[renderer[r]]) =>
              /\ released'[r] = 0
              /\ steps'[r] = <<"acquire">>
              /\ OutOfPools(renderer[r])
      ]_vars

\* One request was handed a handle without a render method and answered
\* 503, and a later request of the same pool rendered with another handle.
C30_Witness ==
    \E r1, r2 \in Reqs :
        /\ renderer[r1] # NoRenderer
        /\ ~hasRender[renderer[r1]]
        /\ res[r1] = <<Response(503, "Renderer invalid")>>
        /\ removed[r1] = 1
        /\ PoolOf(mode[r1]) = PoolOf(mode[r2])
        /\ renderer[r2] # NoRenderer
        /\ renderer[r2] # renderer[r1]
        /\ hasRender[renderer[r2]]
        /\ released[r2] = 1

\* The upper and lower edge of the window renderOverlay draws, in
\* thousandths of a pixel.
WindowTop(v) == v.centerY - (v.h * Milli) \div 2

WindowBottom(v) == v.centerY + (v.h * Milli) \div 2

\* The height of the map at zoom z2 / 2, fraction of the zoom included.
MapHeightAt(z2) == MapTileSize * PowMilli(z2)

\* C31: after the vertical clamp of renderOverlay the window
\* [centerY - h/2, centerY + h/2] lies within [0, height of the map at the
\* zoom], for every zoom, fractional ones included, every latitude and
\* every viewport height, heights above the map's included.
C31_AsClaimed ==
    \A i \in 1 .. Len(overlayCall.view) :
        LET v == overlayCall.view[i]
        IN /\ WindowTop(v) >= 0
           /\ WindowBottom(v) <= MapHeightAt(v.z2)

\* Request r waits in the queue of the pool of its mode.
Queued(r) ==
    \E i \in 1 .. Len(pools[PoolOf(mode[r])].queue) :
        pools[PoolOf(mode[r])].queue[i] = r

\* What holds of request r at every moment: at most one response; a
\* finished or timed-out request has its response; a request not yet
\* answered waits for the pool's callback, or is rendering with its timeout
\* armed and able to fire, or is encoding with the encoder's callback able
\* to run.
AnsweredOrPending(r) ==
    /\ Len(res[r]) <= 1
    /\ pc[r] \in {"done", "timedout"} => Len(res[r]) = 1
    /\ pc[r] = "acquiring" => res[r] = <<>> /\ Queued(r)
    /\ pc[r] = "rendering" =>
          /\ res[r] = <<>>
          /\ timer[r] = "armed"
          /\ ENABLED RenderTimeout(r)
          /\ ENABLED RenderCallback(r, FALSE)
    /\ pc[r] = "encoding" =>
          /\ res[r] = <<>>
          /\ ENABLED ToBufferCallback(r, FALSE)
          /\ ENABLED ToBufferCallback(r, TRUE)

C34_AsClaimed ==
    ItemId \in repo => \A k \in PoolKeys : pools[k] # NoPool

\* The statuses of the answers given before pool.acquire.
RejectionStatuses == {400, 404, 304, 500}

\* C36: a request answered by a check of respondImage (center, size,
\* format, missing pool) or of handleTileRequest (unknown item, 304, out of
\* bounds) is answered in the step it arrives in, with no pool touched: the
\* pools, their queues and handles and the pool calls of every request are
\* as before, and the request never gets a handle.
C36_RejectedBeforeAnyPool ==
    [][\A r \in Reqs :
        /\ (pc[r] = "idle" /\ pc'[r] = "done") =>
              /\ UNCHANGED <<pools, nextHandle, hasRender, destroyed,
                             timedOut, renderer, timer, released, removed,
                             steps>>
              /\ Len(res'[r]) = 1
              /\ res'[r][1].status \in RejectionStatuses
        /\ (pc[r] = "idle" /\ pc'[r] = "acquiring") =>
              pools[PoolOf(mode'[r])] # NoPool
        /\ (steps[r] = <<>> /\ pc[r] = "done") =>
              /\ renderer'[r] = NoRenderer
              /\ released'[r] = 0 /\ removed'[r] = 0
      ]_vars

\* A static request was rejected for its size while the other request was
\* rendering with a handle of the static pool.
C36_Witness ==
    \E r1, r2 \in Reqs :
        /\ pc[r1] = "rendering" /\ mode[r1] = "static"
        /\ renderer[r1] \in pools[PoolOf("static")].busy
        /\ pc[r2] = "done" /\ mode[r2] = "static"
        /\ res[r2] = <<Response(400, "Invalid size")>>

\* The resolver is through with call c: its function returned or threw.
Through(c) == calls[c].pc \in {"done", "rejected"}

\* C33: once the resolver is through with a resource request, whatever its
\* scheme and the outcome of the lookup, the renderer's callback has been
\* invoked exactly once, and a request function that ended with an error
\* has handed that error to the callback.
C33_AsClaimed ==
    \A c \in Calls :
        /\ Len(calls[c].callbacks) <= 1
        /\ Through(c) => Len(calls[c].callbacks) = 1
        /\ calls[c].pc = "rejected" => calls[c].callbacks = <<CbError>>

\* The values a fully read ok response is cached as: the headers and the
\* body the server may answer with.
FetchedResponses ==
    {[ParsedHeaders(h) EXCEPT !.data = g.body] : h, g \in ServerResponses}

\* The cache entry of url u is new or has a new value after the step.
Written(u) ==
    /\ LRUHas(externalRequestCache', u)
    /\ \/ ~LRUHas(externalRequestCache, u)
       \/ LRUValue(externalRequestCache', u) # LRUValue(externalRequestCache, u)

\* Call c read the body of an ok response in this step and handed it on.
ReadBody(c) ==
    /\ calls[c].pc = "reading"
    /\ calls'[c].pc = "done"
    /\ ~calls'[c].caught

\* C37: an entry of the sub-resource cache is written only in the step in
\* which a call has read the whole body of an ok response, with that
\* response as its value; a 410, a non-ok status, a rejected fetch and a
\* failed body read leave the cache as it is, so a cached entry is never a
\* placeholder, and a resolution of a URL that is not in the cache fetches
\* it again.
C37_CacheOnlyAfterSuccess ==
    [][/\ \A u \in Urls :
            Written(u) =>
                \E c \in Calls :
                    /\ ReadBody(c)
                    /\ calls[c].req.target = u
                    /\ calls'[c].callbacks =
                          <<CbResponse(LRUValue(externalRequestCache', u))>>
                    /\ LRUValue(externalRequestCache', u) \in FetchedResponses
       /\ \A c \in Calls :
            (calls[c].pc \in {"fetching", "reading"} /\ ~ReadBody(c)
             /\ calls'[c] # calls[c]) =>
                externalRequestCache' = externalRequestCache
       /\ \A c \in Calls :
            (calls[c].pc = "idle" /\ calls'[c].pc # "idle"
             /\ calls'[c].req.protocol \in {"http", "https"}
             /\ ~LRUHas(externalRequestCache, calls'[c].req.target)) =>
                fetchCount'[calls'[c].req.target]
                    = fetchCount[calls'[c].req.target] + 1
      ]_vars

\* The first resolution of a URL failed and left no entry, the second one
\* fetched it again, succeeded and is the one that wrote the entry.
C37_Witness ==
    \E u \in Urls :
        /\ calls[1].req.target = u /\ calls[1].pc = "done" /\ calls[1].caught
        /\ calls[2].req.target = u /\ calls[2].pc = "done" /\ ~calls[2].caught
        /\ fetchCount[u] = 2
        /\ cachedBy[u] = 2
        /\ LRUHas(externalRequestCache, u)
        /\ calls[2].callbacks = <<CbResponse(LRUValue(externalRequestCache, u))>>

\* The metadata fetch of the archive being added has failed: the retries
\* are used up or the failure is not a rate limit.
MetadataFailed ==
    /\ dataAddCall.pc = "returned"
    /\ dataAddCall.params[1].type = "pmtiles"

\* C35: when the metadata fetch of a PMTiles archive fails during
\* serve_data.add, the repository is as it was before the call, with no
\* entry made for the id; every entry of the repository carries the
\* metadata of its archive, and an entry is made only in the step in which
\* the metadata has arrived.
C35_NoEntryWithoutMetadata ==
    /\ [](/\ MetadataFailed =>
               /\ dataAddCall.repo = dataAddCall.before
               /\ infoCall.result = "threw"
          /\ \A e \in dataAddCall.repo : Len(e.tileJSON) = 1
          /\ dataAddCall.pc \in {"getPMtilesInfo", "getInfo", "rejected"} =>
               dataAddCall.repo = dataAddCall.before)
    /\ [][dataAddCall.repo' # dataAddCall.repo =>
            /\ dataAddCall'.pc = "done"
            /\ dataAddCall.pc = "getPMtilesInfo" =>
                  /\ infoCall.result = "metadata"
                  /\ DataEntry(dataAddCall.id, "pmtiles", infoCall.metadata[1])
                        \in dataAddCall.repo'
         ]_vars

\* A first archive was registered; the metadata fetch of a second one was
\* rate limited three times and the repository holds the first entry only.
C35_Witness ==
    /\ MetadataFailed
    /\ Len(infoCall.outcomes) = DefaultInfoRetries
    /\ \A n \in 1 .. Len(infoCall.outcomes) :
          infoCall.outcomes[n].message = <<"429">>
    /\ \E e \in dataAddCall.repo : e.id # dataAddCall.id
    /\ \A e \in dataAddCall.repo : e.id # dataAddCall.id

\* The icon class of a provided icon text, and whether the configuration
\* allows it.
IconAllowedByConfig(iconURI, config) ==
    IF isValidHttpUrl(iconURI)
    THEN config.allowRemoteMarkerIcons = BooleanTrue
    ELSE IF IsDataURL(iconURI)
    THEN config.allowInlineMarkerImages = BooleanTrue
    ELSE sanitize(iconURI) \in config.availableIcons

\* A provided marker that is well formed, allowed and has a location that
\* parses.
Acceptable(providedMarker, query, config) ==
    /\ providedMarker.type = "string"
    /\ providedMarker.icon # Absent
    /\ Len(providedMarker.location) = 2
    /\ IconAllowedByConfig(providedMarker.icon[1], config)
    /\ ~isNaNFloat(providedMarker.location[1])
    /\ ~isNaNFloat(providedMarker.location[2])
    /\ ~query.transformerThrows

\* The provided markers of a call, and those of them that are acceptable, in
\* the order given.
ProvidedOf(query) == IF query.marker = Absent THEN <<>> ELSE query.marker[1]

KeptOf(query, config) ==
    LET Ok(providedMarker) == Acceptable(providedMarker, query, config)
    IN SelectSeq(ProvidedOf(query), Ok)

\* The icon a returned marker carries for a provided icon text.
ReturnedIcon(iconURI, config) ==
    IF isValidHttpUrl(iconURI) \/ IsDataURL(iconURI) THEN iconURI
    ELSE config.icons \o <<"/">> \o sanitize(iconURI)

\* C38: the markers returned by extractMarkersFromQuery are exactly the
\* provided markers whose icon the configuration allows (http(s) only with
\* allowRemoteMarkerIcons exactly true, data: only with
\* allowInlineMarkerImages exactly true, any other only when its sanitized
\* name is in availableIcons) and whose location parses, in the order given;
\* every other provided marker is skipped and changes nothing else.
C38_OnlyAllowedIcons ==
    markersCall.pc = "done" =>
        LET query == markersCall.input[1].query
            config == markersCall.input[1].options
            kept == KeptOf(query, config)
        IN /\ Len(markersCall.markers) = Len(kept)
           /\ \A i \in 1 .. Len(kept) :
                 /\ markersCall.markers[i].icon
                    = ReturnedIcon(kept[i].icon[1], config)
                 /\ IconAllowedByConfig(kept[i].icon[1], config)

\* A call with two provided markers: the first has a remote icon while
\* allowRemoteMarkerIcons is the string "true" and is skipped, the second has a
\* listed icon and is returned.
C38_Witness ==
    /\ markersCall.pc = "done"
    /\ Len(ProvidedOf(markersCall.input[1].query)) = 2
    /\ ProvidedOf(markersCall.input[1].query)[1].icon # Absent
    /\ isValidHttpUrl(ProvidedOf(markersCall.input[1].query)[1].icon[1])
    /\ markersCall.input[1].options.allowRemoteMarkerIcons
       = [type |-> "string", text |-> "true"]
    /\ Len(markersCall.markers) = 1
    /\ markersCall.markers[1].icon = <<"i", "/", "p">>

\* The call was classified as object storage by openPMtiles.
ClassifiedS3 == isS3Url(s3Source.scheme \o s3Source.body)

\* The text after the scheme is <bucket>/<key> with both non-empty.
BucketAndKey(body) == MatchAws(body).ok

\* C39: a location that openPMtiles classifies as object storage (s3://,
\* s3+http:// or s3+https:// in any letter case) and that has a non-empty
\* bucket and key after the scheme is parsed by parseS3Url without error,
\* under auto-detection and under the aws format.
C39_AsClaimed ==
    (/\ s3Source.pc # "none"
     /\ ClassifiedS3
     /\ BucketAndKey(s3Source.body)
     /\ s3Source.input[1].s3UrlFormat \in {Undef, Str("aws")})
        => s3Source.pc = "done"

====
